---- MODULE Spec2Model ----
(***************************************************************************)
(* Model of the moodreads recommendation core: the tiered selection of     *)
(* the recommendation endpoint (src/backend/main.py), the vector store's   *)
(* similarity search (src/vector_embeddings.py), and the emotional         *)
(* analyzer's cache and signal fusion                                      *)
(* (src/google_books_emotional_analysis.py), the loops of the batch        *)
(* scripts (src/scripts), and the books and vectors the integrator stores  *)
(* (src/integrate_emotional_analysis.py).                                  *)
(*                                                                         *)
(* Scores are kept as integers in units of 0.0001, intensities in units    *)
(* of 0.01 on the 0-10 scale, so that every comparison of the code is an   *)
(* exact integer comparison here.                                          *)
(***************************************************************************)
EXTENDS Integers, Sequences, FiniteSets, TLC

VARIABLES
    \* the recommendation endpoint (backend/main.py)
    recommendations,        \* what recommender.recommend_books returned
    response,               \* the endpoint's returned list
    epc,                    \* position of the request: "idle", "scored", "done"
    \* one book's profile and vector (google_books_emotional_analysis.py, vector_embeddings.py)
    description_analysis,   \* create_emotional_profile: analyze_description's result
    reviews_analysis,       \* create_emotional_profile: analyze_reviews' result
    genres,                 \* create_emotional_profile: the genre labels of the book
    genre_emotions,         \* create_emotional_profile: extract_genre_emotions' result
    combined,               \* _combine_emotional_signals' primary_emotions, <<>> before it ran
    vector,                 \* the vector generated last
    vector_source,          \* the primary_emotions it was generated from
    ppc,                    \* "idle", "analyzed", "combined", "stored", "mood", "shaped", "raised",
                            \* "labelled", "extracted"
    \* a mood request against the vector store (app.py, integrate_emotional_analysis.py,
    \* vector_embeddings.py)
    vectors_collection,     \* db.emotion_vectors: the stored vector documents, in find() order
    books_collection,       \* db.books: the _ids that find_one finds
    credential,             \* CLAUDE_API_KEY is set in the environment of the process
    startup,                \* "starting", "ready", "exited"
    failures,               \* what failed while the request was handled
    limit,                  \* api_recommendations: the limit after the clamp
    requested_limit,        \* the limit of the request JSON (DefaultLimit when absent)
    mood_analysis,          \* analyze_description's answer for the mood sentence
    similarities,           \* find_similar_books: the similarity computed for each stored vector
    vector_recommendations, \* what get_recommendations_by_mood returned
    mood_result,            \* what get_mood_recommendations returned
    mpc,                    \* "idle", "requested", "searched", "done", "raised"
    \* the analysis cache of one process (google_books_emotional_analysis.py)
    cache_file,             \* cache/emotional_analysis_cache.json: key -> analysis
    analyzer_cache,         \* self.cache of BookDataIntegrator.emotional_analyzer
    calls,                  \* per key, the calls made on that analyzer: output and answer
    empty_calls,            \* what the calls with an empty text returned
    written,                \* the keys some analyzer has put so far
    refetched,              \* the service was asked again for a key that had been put
    \* the text fields of one fused profile (google_books_emotional_analysis.py)
    fusion_book,            \* create_emotional_profile's book: has a description, has reviews
    fusion_answers,         \* what the service would answer for its description and its reviews
    fused_profile,          \* what create_emotional_profile returned
    fpc,                    \* "idle", "called", "returned"
    \* one run of a batch script (scripts/scrape_books.py, scripts/update_emotional_profiles.py,
    \* scripts/update_book_profiles.py)
    script,                 \* "process_batch", "update_books", "update_book_profiles"
    batch_items,            \* the items of the batch, in order
    bpos,                   \* index of the item whose turn is next
    bpc,                    \* "idle", "running", "returned", "aborted"
    passes,                 \* how many times the batch was handed to the loop
    processed_urls,         \* AdvancedBookScraper.processed_urls
    progress_file,          \* the processed_urls list of the progress file on disk
    handled,                \* what happened to each item whose turn came, in order
    \* the books and vectors one integrator keeps (integrate_emotional_analysis.py,
    \* vector_embeddings.py, scripts/update_book_profiles.py)
    stored_books,           \* db.books: _id -> record
    emotion_vectors,        \* db.emotion_vectors: book_id -> vector
    store_ops               \* the operations that ran, in order

endpointVars == <<recommendations, response, epc>>

profileVars ==
    <<description_analysis, reviews_analysis, genres, genre_emotions, combined, vector,
      vector_source, ppc>>

moodVars ==
    <<vectors_collection, books_collection, credential, startup, failures, limit,
      requested_limit, mood_analysis, similarities, vector_recommendations, mood_result, mpc>>

cacheVars == <<cache_file, analyzer_cache, calls, empty_calls, written, refetched>>

fusionVars == <<fusion_book, fusion_answers, fused_profile, fpc>>

batchVars ==
    <<script, batch_items, bpos, bpc, passes, processed_urls, progress_file, handled>>

storeVars == <<stored_books, emotion_vectors, store_ops>>

vars == <<endpointVars, profileVars, moodVars, cacheVars, fusionVars, batchVars, storeVars>>

(***************************************************************************)
(* Titles.  A title is a sequence of one-character strings so that         *)
(* str.strip() and str.lower() can be computed instead of assumed.         *)
(***************************************************************************)
\* the value standing for a record without a 'title' key
Missing == <<"<no title key>">>

T_Dune == <<"D", "u", "n", "e">>

T_Empty == <<>>

T_UnknownTitle == <<"U", "n", "k", "n", "o", "w", "n", " ", "T", "i", "t", "l", "e">>

T_UNKNOWN_TITLE == <<" ", "U", "N", "K", "N", "O", "W", "N", " ", "T", "I", "T", "L", "E">>

T_unknown == <<"u", "n", "k", "n", "o", "w", "n">>

T_unknown_title == <<"u", "n", "k", "n", "o", "w", "n", " ", "t", "i", "t", "l", "e">>

Titles == {T_Dune, T_Empty, T_UnknownTitle, T_UNKNOWN_TITLE, Missing}

\* str.lower() on one character
LowerChar(c) ==
    CASE c = "C" -> "c"
      [] c = "D" -> "d"
      [] c = "E" -> "e"
      [] c = "H" -> "h"
      [] c = "I" -> "i"
      [] c = "J" -> "j"
      [] c = "K" -> "k"
      [] c = "L" -> "l"
      [] c = "N" -> "n"
      [] c = "O" -> "o"
      [] c = "T" -> "t"
      [] c = "U" -> "u"
      [] c = "W" -> "w"
      [] OTHER -> c

\* str.lower()
Lower(s) == [i \in 1..Len(s) |-> LowerChar(s[i])]

RECURSIVE LStrip(_)
LStrip(s) == IF s # <<>> /\ Head(s) = " " THEN LStrip(Tail(s)) ELSE s

RECURSIVE RStrip(_)
RStrip(s) ==
    IF s # <<>> /\ s[Len(s)] = " " THEN RStrip(SubSeq(s, 1, Len(s) - 1)) ELSE s

\* str.strip()
Strip(s) == RStrip(LStrip(s))

\* book.get('title', default)
GetTitle(book, default) == IF book.title = Missing THEN default ELSE book.title

(***************************************************************************)
(* Scores, in units of 0.0001.                                            *)
(***************************************************************************)
GoodThreshold == 300

SmallThreshold == 10

FallbackCount == 5

MaxReturned == 10

\* the scores at the thresholds of the tiers, one just above the small
\* threshold, and a good one whose display value meets the ceiling of 100
Scores == {0, SmallThreshold, SmallThreshold + 1, GoodThreshold, 7500}

Books == [title : Titles, match_score : Scores]

\* Bounds of the recommender outputs that are enumerated: the first MaxVaried
\* entries are arbitrary, the rest of the list (up to MaxRecs entries in all)
\* repeats the last of them.
MaxVaried == 3

MaxRecs == 11

\* s[:n]
Take(s, n) == SubSeq(s, 1, IF n < Len(s) THEN n ELSE Len(s))

MinOf(a, b) == IF a < b THEN a ELSE b

IsSortedDesc(s) == \A i \in 1..(Len(s) - 1) : s[i].match_score >= s[i + 1].match_score

Pad(p, n) == p \o [i \in 1..n |-> p[Len(p)]]

\* The lists EnhancedRecommender.recommend_books may hand to the endpoint:
\* ranked by descending score.
RecommenderOutputs ==
    {<<>>} \cup
    { Pad(p, n) : p \in { q \in UNION { [1..k -> Books] : k \in 1..MaxVaried } : IsSortedDesc(q) },
                  n \in 0..(MaxRecs - MaxVaried) }

\* a slip at the boundary of the good tier: >= instead of >
is_good_match_inclusive(book) == book.match_score >= GoodThreshold

is_good_match(book) == book.match_score > GoodThreshold

is_small_match(book) ==
    SmallThreshold < book.match_score /\ book.match_score <= GoodThreshold

is_zero_match(book) == book.match_score <= SmallThreshold

has_valid_title(book) ==
    LET title == Strip(GetTitle(book, T_Empty))
    IN  /\ title # T_Empty
        /\ Lower(title) # T_unknown
        /\ Lower(title) # T_unknown_title

good_and_valid(book) == is_good_match(book) /\ has_valid_title(book)

small_and_valid(book) == is_small_match(book) /\ has_valid_title(book)

good_matches(recs) == SelectSeq(recs, good_and_valid)

small_matches(recs) == SelectSeq(recs, small_and_valid)

\* a slip: the display value without its ceiling of 100
display_match_uncapped(score) == 500 + (score + 5) \div 10

\* display_match = round(min(score * 100 + 50, 100.0), 1), in units of 0.1 percent
display_match(score) ==
    LET tenths == 500 + (score + 5) \div 10
    IN  IF tenths > 1000 THEN 1000 ELSE tenths

transform_book_data(book) ==
    [title |-> GetTitle(book, T_UnknownTitle),
     match_score |-> book.match_score,
     emotionalMatch |-> display_match(book.match_score)]

\* the tier the endpoint settles on, before the cap
select_tier(recs) ==
    IF good_matches(recs) # <<>> THEN good_matches(recs)
    ELSE IF small_matches(recs) # <<>> THEN small_matches(recs)
    ELSE IF Len(recs) > 0 THEN Take(recs, FallbackCount)
    ELSE <<>>

cap_recommendations(recs) == IF Len(recs) > MaxReturned THEN Take(recs, MaxReturned) ELSE recs

get_recommendations_result(recs) ==
    IF recs = <<>> THEN <<>>
    ELSE LET chosen == cap_recommendations(select_tier(recs))
         IN  [i \in 1..Len(chosen) |-> transform_book_data(chosen[i])]

(***************************************************************************)
(* Claims about the recommendation endpoint (checked under Spec).          *)
(***************************************************************************)
\* titles the endpoint is meant to keep out of its results, listed
\* independently of has_valid_title
PlaceholderTitles == {Missing, T_Empty, T_UnknownTitle, T_UNKNOWN_TITLE}

AnyGood(recs) == \E i \in 1..Len(recs) : recs[i].match_score > 300

AnySmall(recs) ==
    \E i \in 1..Len(recs) : recs[i].match_score > 10 /\ recs[i].match_score <= 300

ValidGood(recs) ==
    {i \in 1..Len(recs) : recs[i].match_score > 300 /\ recs[i].title \notin PlaceholderTitles}

ValidSmall(recs) ==
    {i \in 1..Len(recs) : /\ recs[i].match_score > 10
                          /\ recs[i].match_score <= 300
                          /\ recs[i].title \notin PlaceholderTitles}

\* C1 as stated: if any candidate scores above 0.03 the result holds only
\* candidates scoring above 0.03; otherwise, if any candidate scores in
\* (0.001, 0.03] the result holds only such candidates; otherwise the result
\* is the top-5 candidates when there are candidates, else empty.
C1_TierSelectionAsStated ==
    epc = "done" =>
        IF AnyGood(recommendations)
        THEN /\ response # <<>>
             /\ \A i \in 1..Len(response) : response[i].match_score > 300
        ELSE IF AnySmall(recommendations)
        THEN /\ response # <<>>
             /\ \A i \in 1..Len(response) :
                    response[i].match_score > 10 /\ response[i].match_score <= 300
        ELSE IF recommendations # <<>>
        THEN Len(response) = MinOf(Len(recommendations), 5)
        ELSE response = <<>>

\* C1 amended: the tiers are taken over the validly titled candidates only.
\* If a validly titled candidate scores above 0.03 the result is the validly
\* titled candidates scoring above 0.03 (the first 10 of them at most);
\* otherwise, if a validly titled candidate scores in (0.001, 0.03] the result
\* is those (the first 10 at most); otherwise, if there is any candidate, the
\* result is the first 5 candidates of the ranking whatever their score;
\* otherwise it is empty.
C1_TierSelection ==
    epc = "done" =>
        IF ValidGood(recommendations) # {}
        THEN /\ Len(response) = MinOf(Cardinality(ValidGood(recommendations)), 10)
             /\ \A i \in 1..Len(response) :
                    /\ response[i].match_score > 300
                    /\ response[i].title \notin PlaceholderTitles
        ELSE IF ValidSmall(recommendations) # {}
        THEN /\ Len(response) = MinOf(Cardinality(ValidSmall(recommendations)), 10)
             /\ \A i \in 1..Len(response) :
                    /\ response[i].match_score > 10
                    /\ response[i].match_score <= 300
                    /\ response[i].title \notin PlaceholderTitles
        ELSE IF recommendations # <<>>
        THEN /\ Len(response) = MinOf(Len(recommendations), 5)
             /\ \A i \in 1..Len(response) :
                    response[i].match_score = recommendations[i].match_score
        ELSE response = <<>>

\* a request where the good tier was used although weaker, validly titled
\* candidates were on the list, and one where a badly titled good match
\* pushed the request down to the small tier
C1_Witness ==
    /\ epc = "done"
    /\ \/ /\ ValidGood(recommendations) # {}
          /\ ValidSmall(recommendations) # {}
          /\ Len(response) = Cardinality(ValidGood(recommendations))
       \/ /\ AnyGood(recommendations)
          /\ ValidGood(recommendations) = {}
          /\ ValidSmall(recommendations) # {}
          /\ response # <<>>

\* C2: no returned book has an empty title or a title equal, whatever the
\* case, to "Unknown Title".
C2_NoPlaceholderTitleReturned ==
    epc = "done" =>
        \A i \in 1..Len(response) :
            /\ response[i].title # T_Empty
            /\ Lower(response[i].title) # T_unknown_title

\* C25 as stated: every returned match score is an integer between 0 and
\* 100 (emotionalMatch is kept in tenths of a percent, so an integer is a
\* multiple of ten).
C25_MatchScoreIsIntegerAsStated ==
    epc = "done" =>
        \A i \in 1..Len(response) :
            /\ response[i].emotionalMatch \in 0..1000
            /\ response[i].emotionalMatch % 10 = 0

\* C25, amended: every returned match score is a number between 0 and 100
\* with at most one decimal place, whatever score the recommender gave.
C25_MatchScoreWithinRange ==
    epc = "done" =>
        \A i \in 1..Len(response) : response[i].emotionalMatch \in 0..1000

\* a response with a score that met the ceiling and one that is not a whole
\* number of percent
C25_Witness ==
    /\ epc = "done"
    /\ \E i \in 1..Len(response) :
          response[i].match_score > 5000 /\ response[i].emotionalMatch = 1000
    /\ \E i \in 1..Len(response) : response[i].emotionalMatch % 10 # 0

EndpointIdle ==
    /\ recommendations = <<>>
    /\ response = <<>>
    /\ epc = "idle"

\* recommender.recommend_books(query, limit=20) returns
RecommendBooks ==
    /\ epc = "idle"
    /\ \E recs \in RecommenderOutputs : recommendations' = recs
    /\ epc' = "scored"
    /\ UNCHANGED response
    /\ UNCHANGED <<profileVars, moodVars, cacheVars, fusionVars, batchVars, storeVars>>

\* the rest of get_recommendations: tiering, title filter, cap, transformation
GetRecommendations ==
    /\ epc = "scored"
    /\ response' = get_recommendations_result(recommendations)
    /\ epc' = "done"
    /\ UNCHANGED recommendations
    /\ UNCHANGED <<profileVars, moodVars, cacheVars, fusionVars, batchVars, storeVars>>

(***************************************************************************)
(* Emotion profiles.  Emotion names are sequences of one-character         *)
(* strings; intensities are integers in units of 0.01, so 8 on the 0-10    *)
(* scale is 800 and a genre intensity of 0.64 on the 0-1 scale is 64.      *)
(***************************************************************************)
N_joy == <<"j", "o", "y">>

N_Joy == <<"J", "o", "y">>

N_joyful == <<"j", "o", "y", "f", "u", "l">>

N_xyz == <<"x", "y", "z">>

N_fear == <<"f", "e", "a", "r">>

N_tension == <<"t", "e", "n", "s", "i", "o", "n">>

N_dread == <<"d", "r", "e", "a", "d">>

N_comfort == <<"c", "o", "m", "f", "o", "r", "t">>

N_satisfaction == <<"s", "a", "t", "i", "s", "f", "a", "c", "t", "i", "o", "n">>

N_neutral == <<"n", "e", "u", "t", "r", "a", "l">>

\* the canonical axis list of generate_emotion_vector, in its order
standard_emotions ==
    << <<"j", "o", "y">>,
       <<"s", "a", "d", "n", "e", "s", "s">>,
       <<"a", "n", "g", "e", "r">>,
       <<"f", "e", "a", "r">>,
       <<"s", "u", "r", "p", "r", "i", "s", "e">>,
       <<"d", "i", "s", "g", "u", "s", "t">>,
       <<"a", "n", "t", "i", "c", "i", "p", "a", "t", "i", "o", "n">>,
       <<"t", "r", "u", "s", "t">>,
       <<"w", "o", "n", "d", "e", "r">>,
       <<"e", "x", "c", "i", "t", "e", "m", "e", "n", "t">>,
       <<"r", "e", "f", "l", "e", "c", "t", "i", "o", "n">>,
       <<"t", "e", "n", "s", "i", "o", "n">>,
       <<"c", "o", "m", "f", "o", "r", "t">>,
       <<"o", "u", "t", "r", "a", "g", "e">>,
       <<"m", "e", "l", "a", "n", "c", "h", "o", "l", "y">>,
       <<"n", "o", "s", "t", "a", "l", "g", "i", "a">>,
       <<"h", "o", "p", "e">>,
       <<"d", "e", "s", "p", "a", "i", "r">>,
       <<"c", "u", "r", "i", "o", "s", "i", "t", "y">>,
       <<"c", "o", "n", "f", "u", "s", "i", "o", "n">>,
       <<"a", "w", "e">>,
       <<"l", "o", "v", "e">>,
       <<"h", "a", "t", "e">>,
       <<"a", "n", "x", "i", "e", "t", "y">>,
       <<"r", "e", "l", "i", "e", "f">>,
       <<"p", "r", "i", "d", "e">>,
       <<"s", "h", "a", "m", "e">>,
       <<"c", "o", "u", "r", "a", "g", "e">>,
       <<"o", "p", "p", "r", "e", "s", "s", "i", "o", "n">>,
       <<"l", "i", "b", "e", "r", "a", "t", "i", "o", "n">> >>

NumAxes == Len(standard_emotions)

Entry(name, value) == [emotion |-> name, intensity |-> value]

\* the {emotion, intensity} entries the external service is taken to answer with
EntryChoices ==
    { Entry(N_joy, 800), Entry(N_joy, 400), Entry(N_joy, 0),
      Entry(N_Joy, 800), Entry(N_joyful, 800), Entry(N_xyz, 400) }

\* Bounds on the number of primary_emotions entries of the two text analyses.
MaxDescEntries == 2

MaxReviewEntries == 1

SeqsUpTo(S, n) == UNION { [1..k -> S] : k \in 0..n }

Profile(entries) == [primary_emotions |-> entries]

\* an error object that drops the response text
error_object_without_raw(response_text) ==
    [error |-> "JSON parsing failed", raw_response |-> ""]

\* {"error": "JSON parsing failed", "raw_response": response_text}
error_object(response_text) ==
    [error |-> "JSON parsing failed", raw_response |-> response_text]

\* response texts in which no JSON object is found
GarbageTexts == {"I cannot analyze this.", "Here you go: {primary_emotions: oops"}

\* the error object of one such response, as a caller receives it
ErrorObject == error_object("I cannot analyze this.")

\* _get_default_analysis()
default_analysis == Profile(<<Entry(N_neutral, 500)>>)

DescChoices == { Profile(s) : s \in SeqsUpTo(EntryChoices, MaxDescEntries) } \cup {ErrorObject}

ReviewChoices ==
    { Profile(s) : s \in SeqsUpTo(EntryChoices, MaxReviewEntries) } \cup {ErrorObject}

\* values of extract_genre_emotions: no genres, ['comedy'] (exact match) and
\* ['horror fiction'] (partial match, intensities scaled by 0.8)
NoGenreEmotions == [n \in {} |-> 0]

ComedyEmotions == [n \in {N_joy, N_comfort, N_satisfaction} |->
                     CASE n = N_joy -> 80 [] n = N_comfort -> 60 [] OTHER -> 50]

HorrorPartialEmotions == [n \in {N_fear, N_tension, N_dread} |->
                            CASE n = N_fear -> 64 [] n = N_tension -> 56 [] OTHER -> 48]

GenreChoices == {NoGenreEmotions, ComedyEmotions, HorrorPartialEmotions}

\* analysis.get('primary_emotions', [])
primary_emotions_of(analysis) ==
    IF "primary_emotions" \in DOMAIN analysis THEN analysis.primary_emotions ELSE <<>>

SetMax(S) == CHOOSE x \in S : \A y \in S : y <= x

\* {e['emotion']: e['intensity'] for e in entries}: the keys of the dict
dict_keys(entries) == { entries[i].emotion : i \in 1..Len(entries) }

\* ... and dict.get(key, 0) on it: a later entry overwrites an earlier one
dict_get(entries, key) ==
    LET idx == { i \in 1..Len(entries) : entries[i].emotion = key }
    IN  IF idx = {} THEN 0 ELSE entries[SetMax(idx)].intensity

\* genre_emotions.get(emotion, 0)
genre_get(genre, key) == IF key \in DOMAIN genre THEN genre[key] ELSE 0

desc_weight == 4

review_weight == 5

genre_weight == 1

genre_scale == 10

\* round(weighted_sum / total_weight, 1): with the weights multiplied by 10
\* the quotient ws / tw is the intensity in units of 0.01, and it is rounded
\* to the nearest multiple of 10.  (No quotient of the enumerated inputs lies
\* halfway between two multiples.)
round_intensity(ws, tw) == 10 * ((2 * ws + 10 * tw) \div (20 * tw))

\* the description and reviews weights taken for one another
weighted_sum_swapped(d, r, g) ==
    (IF d > 0 THEN d * review_weight ELSE 0)
    + (IF r > 0 THEN r * desc_weight ELSE 0)
    + (IF g > 0 THEN g * genre_weight ELSE 0)

weighted_sum(d, r, g) ==
    (IF d > 0 THEN d * desc_weight ELSE 0)
    + (IF r > 0 THEN r * review_weight ELSE 0)
    + (IF g > 0 THEN g * genre_weight ELSE 0)

\* a fixed weighted sum: the denominator is always the three weights
total_weight_fixed(d, r, g) == desc_weight + review_weight + genre_weight

total_weight(d, r, g) ==
    (IF d > 0 THEN desc_weight ELSE 0)
    + (IF r > 0 THEN review_weight ELSE 0)
    + (IF g > 0 THEN genre_weight ELSE 0)

\* the entries appended to combined['primary_emotions'], before the sort
combined_entries(description_an, reviews_an, genre) ==
    LET desc == primary_emotions_of(description_an)
        rev == primary_emotions_of(reviews_an)
        all_emotions == dict_keys(desc) \cup dict_keys(rev) \cup DOMAIN genre
        dv(n) == dict_get(desc, n)
        rv(n) == dict_get(rev, n)
        gv(n) == genre_get(genre, n) * genre_scale
    IN  { Entry(n, round_intensity(weighted_sum(dv(n), rv(n), gv(n)),
                                   total_weight(dv(n), rv(n), gv(n)))) :
            n \in { m \in all_emotions : total_weight(dv(m), rv(m), gv(m)) > 0 } }

\* list.sort(key=intensity, reverse=True) of entries that were appended in
\* the iteration order of a set: every descending arrangement is possible
RECURSIVE sorted_arrangements(_)
sorted_arrangements(S) ==
    IF S = {} THEN {<<>>}
    ELSE LET top == SetMax({ e.intensity : e \in S })
         IN  UNION { { <<e>> \o rest : rest \in sorted_arrangements(S \ {e}) } :
                     e \in { x \in S : x.intensity = top } }

(***************************************************************************)
(* Vectors.  A vector is kept as num / sqrt(den2): an integer numerator    *)
(* per axis and the square of the common denominator, so that dividing by  *)
(* the Euclidean norm is exact.                                            *)
(***************************************************************************)
Axes == 1..NumAxes

\* sum of f[1] * g[1] .. f[n] * g[n]
RECURSIVE DotTo(_, _, _)
DotTo(f, g, n) == IF n = 0 THEN 0 ELSE f[n] * g[n] + DotTo(f, g, n - 1)

\* np.dot on the numerators
Dot(f, g) == DotTo(f, g, NumAxes)

SumSq(num) == Dot(num, num)

\* The value of an expression, computed once.
Eval(x) == CHOOSE v \in {x} : TRUE

\* {e["emotion"].lower(): e["intensity"] for e in primary_emotions}: the
\* entries with their names lower-cased
lowered_entries(entries) ==
    [i \in 1..Len(entries) |-> Entry(Lower(entries[i].emotion), entries[i].intensity)]

\* emotion_dict.get(axis, 0.0)
emotion_dict_get(lowered, axis) == dict_get(lowered, axis)

RECURSIVE Gcd(_, _)
Gcd(a, b) == IF b = 0 THEN a ELSE Gcd(b, a % b)

RECURSIVE GcdTo(_, _)
GcdTo(f, n) == IF n = 0 THEN 0 ELSE Gcd(f[n], GcdTo(f, n - 1))

\* num / sqrt(den2) in lowest terms: a common factor of the numerators is
\* divided out of both
reduced(num, den2) ==
    LET g == Eval(GcdTo(num, NumAxes))
    IN  IF g > 1 /\ den2 % (g * g) = 0
        THEN [num |-> [i \in Axes |-> num[i] \div g], den2 |-> den2 \div (g * g)]
        ELSE [num |-> num, den2 |-> den2]

\* a vectorizer that forgets to divide by the norm
normalize_skipped(v) == v

\* vector / norm when norm > 0, where norm = sqrt(SumSq(num) / den2)
normalize(v) ==
    LET norm2 == Eval(SumSq(v.num))
    IN  IF norm2 > 0 THEN reduced(v.num, norm2) ELSE v

generate_emotion_vector(emotional_profile) ==
    LET lowered == Eval(lowered_entries(primary_emotions_of(emotional_profile)))
        raw == Eval([i \in Axes |-> emotion_dict_get(lowered, standard_emotions[i])])
    IN  normalize([num |-> raw, den2 |-> 1])

NoVector == [num |-> [i \in Axes |-> 0], den2 |-> 1]

IsZeroVector(v) == \A i \in Axes : v.num[i] = 0

ProfileIdle ==
    /\ description_analysis = <<>>
    /\ reviews_analysis = <<>>
    /\ genres = <<>>
    /\ genre_emotions = <<>>
    /\ combined = <<>>
    /\ vector = NoVector
    /\ vector_source = <<>>
    /\ ppc = "idle"

\* _combine_emotional_signals: the primary emotions of the composite profile
CombineEmotionalSignals ==
    /\ ppc = "analyzed"
    /\ \E arrangement \in sorted_arrangements(
              combined_entries(description_analysis, reviews_analysis, genre_emotions)) :
          combined' = arrangement
    /\ ppc' = "combined"
    /\ UNCHANGED <<description_analysis, reviews_analysis, genres, genre_emotions, vector,
                   vector_source>>
    /\ UNCHANGED <<endpointVars, moodVars, cacheVars, fusionVars, batchVars, storeVars>>

\* store_emotion_vector(book_id, emotional_profile) on the composite profile
StoreEmotionVector ==
    /\ ppc = "combined"
    /\ vector' = generate_emotion_vector(Profile(combined))
    /\ vector_source' = combined
    /\ ppc' = "stored"
    /\ UNCHANGED <<description_analysis, reviews_analysis, genres, genre_emotions, combined>>
    /\ UNCHANGED <<endpointVars, moodVars, cacheVars, fusionVars, batchVars, storeVars>>

\* get_recommendations_by_mood: the raw analysis of the mood sentence is vectorized
MoodQueryVector ==
    /\ ppc = "analyzed"
    /\ vector' = generate_emotion_vector(description_analysis)
    /\ vector_source' = primary_emotions_of(description_analysis)
    /\ ppc' = "mood"
    /\ UNCHANGED <<description_analysis, reviews_analysis, genres, genre_emotions, combined>>
    /\ UNCHANGED <<endpointVars, moodVars, cacheVars, fusionVars, batchVars, storeVars>>

\* The other shapes a caller may hand to generate_emotion_vector: a bare
\* list of entries, and the analysis of a user query, a mapping that has
\* no primary_emotions field.
ListShape(entries) == [kind |-> "list", value |-> entries]

MappingShape(mapping) == [kind |-> "dict", value |-> mapping]

user_query_analysis ==
    [desired_emotional_experience |-> <<"happy", "inspired">>,
     intensity_preference |-> "moderate"]

\* generate_emotion_vector(input): emotional_profile.get(...) exists on a
\* mapping only, on a list the attribute lookup raises AttributeError
vectorizer_call(input) ==
    IF input.kind = "list"
    THEN [raised |-> TRUE, vector |-> NoVector]
    ELSE [raised |-> FALSE, vector |-> generate_emotion_vector(input.value)]

\* generate_emotion_vector called with one of the other shapes
VectorizeShape ==
    /\ ppc = "analyzed"
    /\ \E kind \in {"list", "dict"} :
          LET input == IF kind = "list"
                       THEN ListShape(primary_emotions_of(description_analysis))
                       ELSE MappingShape(user_query_analysis)
              r == vectorizer_call(input)
          IN  /\ vector' = r.vector
              /\ vector_source' = IF input.kind = "list" THEN input.value
                                  ELSE primary_emotions_of(input.value)
              /\ ppc' = IF r.raised THEN "raised" ELSE "shaped"
    /\ UNCHANGED <<description_analysis, reviews_analysis, genres, genre_emotions, combined>>
    /\ UNCHANGED <<endpointVars, moodVars, cacheVars, fusionVars, batchVars, storeVars>>

(***************************************************************************)
(* The similarity search of the vector store and the mood request that     *)
(* drives it.                                                              *)
(***************************************************************************)
DefaultLimit == 5

MaxRecommendationLimit == 20

\* Bounds of the stored collections that are enumerated: the first
\* MaxVariedDocs documents are arbitrary, the rest (up to MaxDocs documents
\* in all) repeat the last of them under fresh book ids.
MaxVariedDocs == 2

MaxDocs == 21

\* data.get('limit', default_recommendation_limit): the limits a request may
\* carry, and the default of a request that carries none
LimitChoices == {0 - 1, 0, 11, 25} \cup {DefaultLimit}

P_joy == Profile(<<Entry(N_joy, 800)>>)

P_fear == Profile(<<Entry(N_fear, 800)>>)

P_joy_fear == Profile(<<Entry(N_joy, 800), Entry(N_fear, 400)>>)

\* a stored book: its emotional profile (the default profile has no
\* canonical emotion, its vector is the zero vector), and whether db.books
\* still holds it
DocKinds ==
    { [profile |-> P_joy, has_book |-> TRUE], [profile |-> P_fear, has_book |-> TRUE],
      [profile |-> P_joy_fear, has_book |-> TRUE], [profile |-> P_joy, has_book |-> FALSE],
      [profile |-> default_analysis, has_book |-> TRUE] }

\* what the analyzer may answer for the mood sentence
MoodAnalysisChoices == {P_joy, P_joy_fear, default_analysis, ErrorObject}

\* the document store_emotion_vector upserts
vector_doc(book_id, emotional_profile) ==
    [book_id |-> book_id,
     vector |-> generate_emotion_vector(emotional_profile),
     primary_emotions |-> primary_emotions_of(emotional_profile)]

\* a stored document that store_emotion_vector did not write: its vector is
\* one axis short, or it has no vector field
malformed_doc(book_id, emotional_profile, how) ==
    LET doc == vector_doc(book_id, emotional_profile)
    IN  IF how = "short"
        THEN [doc EXCEPT !.vector.num = [i \in 1..(NumAxes - 1) |-> doc.vector.num[i]]]
        ELSE [book_id |-> book_id, primary_emotions |-> doc.primary_emotions]

MalformedKinds ==
    { [profile |-> P_joy, has_book |-> TRUE, malformed |-> how] : how \in {"short", "missing"} }

\* doc["vector"] is there and np.dot(query_vector, vector) is defined
well_formed(doc) == "vector" \in DOMAIN doc /\ DOMAIN doc.vector.num = Axes

stored_doc(book_id, kind) ==
    IF "malformed" \in DOMAIN kind
    THEN malformed_doc(book_id, kind.profile, kind.malformed)
    ELSE vector_doc(book_id, kind.profile)

\* the collections with a malformed document: alone, before and after a
\* well-formed one
MalformedSeqs ==
    LET WellFormedKinds ==
            {[profile |-> P_joy, has_book |-> TRUE], [profile |-> P_fear, has_book |-> TRUE]}
    IN  { <<m>> : m \in MalformedKinds } \cup
        { <<m, g>> : m \in MalformedKinds, g \in WellFormedKinds } \cup
        { <<g, m>> : m \in MalformedKinds, g \in WellFormedKinds }

\* the collections a request is checked against: up to MaxVariedDocs documents
\* of any kinds, the same with the last document stored once more, and a
\* large collection of MaxDocs documents of one kind
KindSeqs ==
    {<<>>} \cup
    { p \o [i \in 1..n |-> p[Len(p)]] :
        p \in UNION { [1..k -> DocKinds] : k \in 1..MaxVariedDocs },
        n \in {0, 1} } \cup
    { [i \in 1..MaxDocs |-> d] : d \in DocKinds }

\* a similarity with a floor, so that no candidate scores 0
similarity_of_floored(query_vector, doc) ==
    [dot |-> Dot(query_vector.num, doc.vector.num) + 1,
     den2 |-> query_vector.den2 * doc.vector.den2]

\* similarity = np.dot(query_vector, vector) is dot / sqrt(den2): the pair is
\* kept instead of the quotient
similarity_of(query_vector, doc) ==
    [dot |-> Dot(query_vector.num, doc.vector.num),
     den2 |-> query_vector.den2 * doc.vector.den2]

\* a.similarity >= b.similarity, for non-negative dots
sim_geq(a, b) == a.dot * a.dot * b.den2 >= b.dot * b.dot * a.den2

\* results.sort(key=similarity, reverse=True): a stable sort
\* an insertion that puts an element before its equals: not stable
RECURSIVE insert_desc_unstable(_, _)
insert_desc_unstable(x, sorted) ==
    IF sorted = <<>> THEN <<x>>
    ELSE IF ~sim_geq(x.similarity, Head(sorted).similarity)
         THEN <<Head(sorted)>> \o insert_desc_unstable(x, Tail(sorted))
         ELSE <<x>> \o sorted

RECURSIVE insert_desc(_, _)
insert_desc(x, sorted) ==
    IF sorted = <<>> THEN <<x>>
    ELSE IF sim_geq(Head(sorted).similarity, x.similarity)
         THEN <<Head(sorted)>> \o insert_desc(x, Tail(sorted))
         ELSE <<x>> \o sorted

RECURSIVE sort_desc(_)
sort_desc(results) ==
    IF results = <<>> THEN <<>>
    ELSE insert_desc(results[Len(results)], sort_desc(SubSeq(results, 1, Len(results) - 1)))

\* int(similarity * 100), in exact arithmetic: the largest k with k / 100 <= similarity
match_score_of(sim) ==
    CHOOSE k \in 0..100 :
        /\ k * k * sim.den2 <= 10000 * sim.dot * sim.dot
        /\ (k = 100 \/ (k + 1) * (k + 1) * sim.den2 > 10000 * sim.dot * sim.dot)

has_positive_similarity(r) == r.similarity.dot > 0

\* results[:n], as Python slices: a negative n counts from the end
slice_to(results, n) ==
    IF n >= 0 THEN Take(results, n)
    ELSE IF Len(results) + n > 0 THEN Take(results, Len(results) + n)
    ELSE <<>>

\* cursor.limit(n) of the driver: 0 is no limit, a negative n is a limit of -n
cursor_limit(n, available) ==
    IF n = 0 THEN available
    ELSE IF n < 0 THEN MinOf(0 - n, available)
    ELSE MinOf(n, available)

\* the similarity find_similar_books computes for each document of all_vectors
all_similarities(query_vector, docs) ==
    LET q == Eval(normalize(query_vector))
    IN  [i \in 1..Len(docs) |-> similarity_of(q, docs[i])]

\* find_similar_books(query_vector, limit): the list it returns (results),
\* and the similarities it computed on the way; doc["vector"] or np.dot
\* raises at the first document that is not well formed, inside the try
\* block that spans the whole search
find_similar_books(query_vector, n, docs, books) ==
    IF \E i \in 1..Len(docs) : ~well_formed(docs[i])
    THEN [raised |-> TRUE, similarities |-> <<>>, results |-> <<>>]
    ELSE
    LET sims == Eval(all_similarities(query_vector, docs))
        scored == Eval([i \in 1..Len(docs) |->
                          [book_id |-> docs[i].book_id,
                           similarity |-> sims[i],
                           primary_emotions |-> docs[i].primary_emotions]])
        top == Eval(slice_to(sort_desc(SelectSeq(scored, has_positive_similarity)), n))
        found(r) == r.book_id \in books
        kept == Eval(SelectSeq(top, found))
    IN  [raised |-> FALSE,
         similarities |-> sims,
         results |-> [i \in 1..Len(kept) |->
                        [book_id |-> kept[i].book_id,
                         match_score |-> match_score_of(kept[i].similarity),
                         matching_emotions |-> kept[i].primary_emotions]]]

\* get_recommendations_by_mood(mood_query, limit), given the analyzer's answer
get_recommendations_by_mood(analysis, n, docs, books) ==
    find_similar_books(generate_emotion_vector(analysis), n, docs, books)

kth_smallest(S, i) == CHOOSE b \in S : Cardinality({ j \in S : j <= b }) = i

\* limit = min(limit, config.API_CONFIG["max_recommendation_limit"])
clamp_limit(n) == IF n < MaxRecommendationLimit THEN n ELSE MaxRecommendationLimit

\* EmotionalAnalyzer.__init__: raise ValueError("CLAUDE_API_KEY environment
\* variable not set") when the key is absent
analyzer_init(key_present) == [raised |-> ~key_present, value |-> <<>>]

Raised == [raised |-> TRUE, value |-> <<>>]

Returned(value) == [raised |-> FALSE, value |-> value]

\* a handler whose except clause raises again
except_reraise(outcome) == outcome

\* except Exception as e: logger.error(...); return []
except_return_empty(outcome) == IF outcome.raised THEN Returned(<<>>) ELSE outcome

MoodIdle ==
    /\ vectors_collection = <<>>
    /\ books_collection = {}
    /\ credential = TRUE
    /\ startup = "starting"
    /\ failures = {}
    /\ limit = DefaultLimit
    /\ requested_limit = DefaultLimit
    /\ mood_analysis = <<>>
    /\ similarities = <<>>
    /\ vector_recommendations = <<>>
    /\ mood_result = <<>>
    /\ mpc = "idle"

\* app.py: integrator = BookDataIntegrator() at import, whose __init__
\* constructs EmotionalAnalyzer(); main.py: initialize() does the same and
\* exits the process on any exception
StartApplication ==
    /\ startup = "starting"
    /\ startup' = IF analyzer_init(credential).raised THEN "exited" ELSE "ready"
    /\ UNCHANGED <<vectors_collection, books_collection, credential, failures, limit,
                   requested_limit, mood_analysis, similarities, vector_recommendations,
                   mood_result, mpc>>
    /\ UNCHANGED <<endpointVars, profileVars, cacheVars, fusionVars, batchVars, storeVars>>

\* mood_vector_recommendations.py, vector_embeddings.py main(): a process
\* that constructs VectorEmbeddingStore() only, which reads no credential
StartStandalone ==
    /\ startup = "starting"
    /\ startup' = "ready"
    /\ UNCHANGED <<vectors_collection, books_collection, credential, failures, limit,
                   requested_limit, mood_analysis, similarities, vector_recommendations,
                   mood_result, mpc>>
    /\ UNCHANGED <<endpointVars, profileVars, cacheVars, fusionVars, batchVars, storeVars>>

\* get_mood_recommendations / get_recommendations_by_mood in a process
\* without the credential: analyzer = EmotionalAnalyzer() raises inside the
\* try block of the handler
MoodRequestWithoutCredential ==
    /\ startup = "ready"
    /\ ~credential
    /\ mpc = "idle"
    /\ LET r == except_return_empty(analyzer_init(credential))
       IN  /\ mood_result' = r.value
           /\ mpc' = IF r.raised THEN "raised" ELSE "done"
    /\ failures' = failures \cup {"credential"}
    /\ UNCHANGED <<vectors_collection, books_collection, credential, startup, limit,
                   requested_limit, mood_analysis, similarities, vector_recommendations>>
    /\ UNCHANGED <<endpointVars, profileVars, cacheVars, fusionVars, batchVars, storeVars>>

\* api_recommendations: the limit of the request is read and clamped, and the
\* analyzer answers for the mood sentence
ApiRecommendations ==
    /\ startup = "ready"
    /\ credential
    /\ mpc = "idle"
    /\ \E l \in LimitChoices :
          /\ requested_limit' = l
          /\ limit' = clamp_limit(l)
    /\ \E analysis \in MoodAnalysisChoices : mood_analysis' = analysis
    /\ mpc' = "requested"
    /\ UNCHANGED <<vectors_collection, books_collection, credential, startup, failures,
                   similarities, vector_recommendations, mood_result>>
    /\ UNCHANGED <<endpointVars, profileVars, cacheVars, fusionVars, batchVars, storeVars>>

\* BookDataIntegrator.get_mood_recommendations: the vector search; when the
\* store fails, find() raises inside find_similar_books' try block, and so
\* does the scoring of a malformed document
VectorSearch ==
    /\ mpc = "requested"
    /\ \E store_up \in BOOLEAN :
       \E found \in {IF store_up
                      THEN get_recommendations_by_mood(
                               mood_analysis, limit, vectors_collection, books_collection)
                      ELSE [raised |-> TRUE, similarities |-> <<>>, results |-> <<>>]} :
          LET r == except_return_empty(IF found.raised THEN Raised ELSE Returned(found.results))
          IN  /\ vector_recommendations' = r.value
              /\ similarities' = found.similarities
              /\ failures' = IF ~store_up THEN failures \cup {"vector_store"}
                             ELSE IF found.raised THEN failures \cup {"malformed_vector"}
                             ELSE failures
              /\ mpc' = IF r.raised THEN "raised" ELSE "searched"
    /\ UNCHANGED <<vectors_collection, books_collection, credential, startup, limit,
                   requested_limit, mood_analysis, mood_result>>
    /\ UNCHANGED <<endpointVars, profileVars, cacheVars, fusionVars, batchVars, storeVars>>

\* ... which is returned when it found something
ReturnVectorRecommendations ==
    /\ mpc = "searched"
    /\ vector_recommendations # <<>>
    /\ mood_result' = vector_recommendations
    /\ mpc' = "done"
    /\ UNCHANGED <<vectors_collection, books_collection, credential, startup, failures,
                   limit, requested_limit, mood_analysis, similarities,
                   vector_recommendations>>
    /\ UNCHANGED <<endpointVars, profileVars, cacheVars, fusionVars, batchVars, storeVars>>

\* how many books a text search is followed to match: none, one, or as many
\* as the cursor lets through
MatchCounts(most) == {0, most} \cup (IF most >= 1 THEN {1} ELSE {})

\* ... and the text search it falls back to otherwise: the store returns
\* the books whose text matches the emotion terms (none when there are no
\* terms), cut by cursor.limit(limit); when the store fails, find() raises
\* inside get_mood_recommendations' try block
TextSearchFallback ==
    /\ mpc = "searched"
    /\ vector_recommendations = <<>>
    /\ \E store_up \in BOOLEAN :
       \E k \in MatchCounts(cursor_limit(limit, Cardinality(books_collection))) :
          /\ (primary_emotions_of(mood_analysis) = <<>> => k = 0)
          /\ (~store_up => k = 0)
          /\ LET r == except_return_empty(
                          IF store_up
                          THEN Returned([i \in 1..k |->
                                   [book_id |-> kth_smallest(books_collection, i),
                                    match_score |-> 0,
                                    matching_emotions |-> primary_emotions_of(mood_analysis)]])
                          ELSE Raised)
             IN  /\ mood_result' = r.value
                 /\ mpc' = IF r.raised THEN "raised" ELSE "done"
          /\ failures' = IF store_up THEN failures ELSE failures \cup {"text_store"}
    /\ UNCHANGED <<vectors_collection, books_collection, credential, startup, limit,
                   requested_limit, mood_analysis, similarities, vector_recommendations>>
    /\ UNCHANGED <<endpointVars, profileVars, cacheVars, fusionVars, batchVars, storeVars>>

(***************************************************************************)
(* The analysis cache: EmotionalAnalyzer's self.cache and the cache file,  *)
(* as the analyzers of one process use them.                               *)
(***************************************************************************)
\* the texts given to an analysis: the empty one and a non-empty one
Texts == {"", "t1"}

\* hashlib.md5(text.encode()).hexdigest(): distinct texts, distinct digests
md5(text) == IF text = "" THEN "d41d8cd9" ELSE "digest_of_" \o text

\* f"desc_{...}" and f"reviews_{...}"
cache_key(prefix, text) == <<prefix, md5(text)>>

Prefixes == {"desc", "reviews"}

CacheKeys == { cache_key(p, t) : p \in Prefixes, t \in Texts \ {""} }

\* how many calls per key the model follows on the long-lived analyzer
MaxCalls == 2

EmptyCache == [k \in {} |-> default_analysis]

\* what the external service may answer: a JSON object, text that does not
\* parse, or an exception raised by the call
ServiceAnswers ==
    { [kind |-> "json", analysis |-> P_joy], [kind |-> "json", analysis |-> P_fear],
      [kind |-> "raise"] } \cup { [kind |-> "garbage", text |-> t] : t \in GarbageTexts }

\* self.cache[cache_key] = analysis
cache_put(cache, k, analysis) ==
    [x \in DOMAIN cache \cup {k} |-> IF x = k THEN analysis ELSE cache[x]]

\* an analysis that asks the service whatever the text
analyze_without_empty_check(cache, prefix, text, answer) ==
    LET k == cache_key(prefix, text)
    IN  IF k \in DOMAIN cache
        THEN [output |-> cache[k], answer |-> "none", cache |-> cache, saved |-> FALSE]
        ELSE IF answer.kind = "json"
        THEN [output |-> answer.analysis, answer |-> "json",
              cache |-> cache_put(cache, k, answer.analysis), saved |-> TRUE]
        ELSE IF answer.kind = "garbage"
        THEN [output |-> error_object(answer.text), answer |-> "garbage",
              cache |-> cache, saved |-> FALSE]
        ELSE [output |-> default_analysis, answer |-> "raise", cache |-> cache, saved |-> FALSE]

\* an analysis that caches nothing
analyze_without_put(cache, prefix, text, answer) ==
    LET k == cache_key(prefix, text)
    IN  IF text = ""
        THEN [output |-> default_analysis, answer |-> "none", cache |-> cache, saved |-> FALSE]
        ELSE IF k \in DOMAIN cache
        THEN [output |-> cache[k], answer |-> "none", cache |-> cache, saved |-> FALSE]
        ELSE IF answer.kind = "json"
        THEN [output |-> answer.analysis, answer |-> "json", cache |-> cache, saved |-> FALSE]
        ELSE IF answer.kind = "garbage"
        THEN [output |-> error_object(answer.text), answer |-> "garbage",
              cache |-> cache, saved |-> FALSE]
        ELSE [output |-> default_analysis, answer |-> "raise", cache |-> cache, saved |-> FALSE]

\* analyze_description / analyze_reviews on an analyzer whose self.cache is
\* `cache`: the output, what the service answered ("none" when it was not
\* asked), self.cache afterwards, and whether _save_cache ran
analyze(cache, prefix, text, answer) ==
    LET k == cache_key(prefix, text)
    IN  IF text = ""
        THEN [output |-> default_analysis, answer |-> "none", cache |-> cache, saved |-> FALSE]
        ELSE IF k \in DOMAIN cache
        THEN [output |-> cache[k], answer |-> "none", cache |-> cache, saved |-> FALSE]
        ELSE IF answer.kind = "json"
        THEN [output |-> answer.analysis, answer |-> "json",
              cache |-> cache_put(cache, k, answer.analysis), saved |-> TRUE]
        ELSE IF answer.kind = "garbage"
        THEN [output |-> error_object(answer.text), answer |-> "garbage",
              cache |-> cache, saved |-> FALSE]
        ELSE [output |-> default_analysis, answer |-> "raise", cache |-> cache, saved |-> FALSE]

CacheIdle ==
    /\ cache_file = EmptyCache
    /\ analyzer_cache = EmptyCache
    /\ calls = [k \in CacheKeys |-> <<>>]
    /\ empty_calls = {}
    /\ written = {}
    /\ refetched = FALSE

\* what one analysis does to the process: _save_cache writes the analyzer's
\* whole dict over the file
analysis_step(r, prefix, text) ==
    LET k == cache_key(prefix, text)
    IN  /\ cache_file' = IF r.saved THEN r.cache ELSE cache_file
        /\ written' = IF r.saved THEN written \cup {k} ELSE written
        /\ refetched' = (refetched \/ (r.answer # "none" /\ k \in written))

\* an analysis on the integrator's analyzer, constructed at startup
integrator_analysis(prefix) ==
    \E text \in Texts, answer \in ServiceAnswers :
        LET r == analyze(analyzer_cache, prefix, text, answer)
            k == cache_key(prefix, text)
        IN  /\ (text # "" => Len(calls[k]) < MaxCalls)
            /\ analyzer_cache' = r.cache
            /\ calls' = IF text = "" THEN calls
                        ELSE [calls EXCEPT ![k] =
                                 Append(@, [output |-> r.output, answer |-> r.answer,
                                            response |-> IF r.answer = "garbage"
                                                         THEN answer.text ELSE ""])]
            /\ empty_calls' = IF text = ""
                              THEN empty_calls \cup {[prefix |-> prefix, output |-> r.output,
                                                      answer |-> r.answer]}
                              ELSE empty_calls
            /\ analysis_step(r, prefix, text)

\* BookDataIntegrator: self.emotional_analyzer.analyze_description(...)
IntegratorAnalyzeDescription ==
    /\ integrator_analysis("desc")
    /\ UNCHANGED <<endpointVars, profileVars, moodVars, fusionVars, batchVars, storeVars>>

\* BookDataIntegrator: create_emotional_profile's analyze_reviews(...)
IntegratorAnalyzeReviews ==
    /\ integrator_analysis("reviews")
    /\ UNCHANGED <<endpointVars, profileVars, moodVars, fusionVars, batchVars, storeVars>>

\* get_recommendations_by_mood: analyzer = EmotionalAnalyzer() loads the
\* file, analyzes the mood sentence, and is dropped
MoodAnalyzeDescription ==
    /\ \E text \in Texts \ {""}, answer \in ServiceAnswers :
          LET r == analyze(cache_file, "desc", text, answer)
          IN  analysis_step(r, "desc", text)
    /\ UNCHANGED <<analyzer_cache, calls, empty_calls>>
    /\ UNCHANGED <<endpointVars, profileVars, moodVars, fusionVars, batchVars, storeVars>>

(***************************************************************************)
(* Name resolution as the design describes it for the vectorizer           *)
(* (VectorEmbeddingStore._find_closest_emotion, exercised by               *)
(* tests/test_vector_embeddings.py and called from backend/main.py).       *)
(***************************************************************************)
N_wisdom == <<"w", "i", "s", "d", "o", "m">>

N_enlightenment == <<"e", "n", "l", "i", "g", "h", "t", "e", "n", "m", "e", "n", "t">>

N_curiosity == <<"c", "u", "r", "i", "o", "s", "i", "t", "y">>

N_awe == <<"a", "w", "e">>

\* sub in s
Contains(s, sub) ==
    \E i \in 0..(Len(s) - Len(sub)) : SubSeq(s, i + 1, i + Len(sub)) = sub

AxisOf(name) == CHOOSE i \in Axes : standard_emotions[i] = name

\* common_mappings
alias_table == [n \in {N_wisdom, N_enlightenment} |->
                  IF n = N_wisdom THEN N_curiosity ELSE N_awe]

\* the axes a name may be resolved to: the exact match; else the first axis
\* that contains the name or is contained in it; else the alias; else
\* whatever axis the external service suggests, axis 1 as the last resort
closest_axes(name) ==
    LET exact == { i \in Axes : standard_emotions[i] = name }
        partial == { i \in Axes : \/ Contains(name, standard_emotions[i])
                                  \/ Contains(standard_emotions[i], name) }
    IN  IF exact # {} THEN exact
        ELSE IF partial # {} THEN { CHOOSE i \in partial : \A j \in partial : i <= j }
        ELSE IF name \in DOMAIN alias_table THEN { AxisOf(alias_table[name]) }
        ELSE Axes

(***************************************************************************)
(* Genre signals: EmotionalAnalyzer.GENRE_EMOTION_MAP and                  *)
(* extract_genre_emotions.  Genre labels are sequences of one-character    *)
(* strings; intensities are in units of 0.01 on the 0-1 scale.             *)
(***************************************************************************)
\* GENRE_EMOTION_MAP.items(), in the order of the dict
GENRE_EMOTION_MAP ==
    LET row(genre, e1, i1, e2, i2, e3, i3) ==
            [genre |-> genre,
             emotions |-> [e \in {e1, e2, e3} |->
                             IF e = e1 THEN i1 ELSE IF e = e2 THEN i2 ELSE i3]]
        hope == <<"h", "o", "p", "e">>
        excitement == <<"e", "x", "c", "i", "t", "e", "m", "e", "n", "t">>
        wonder == <<"w", "o", "n", "d", "e", "r">>
        inspiration == <<"i", "n", "s", "p", "i", "r", "a", "t", "i", "o", "n">>
        reflection == <<"r", "e", "f", "l", "e", "c", "t", "i", "o", "n">>
        melancholy == <<"m", "e", "l", "a", "n", "c", "h", "o", "l", "y">>
    IN  <<
          row(<<"h", "o", "r", "r", "o", "r">>,
              N_fear, 80, N_tension, 70, N_dread, 60),
          row(<<"r", "o", "m", "a", "n", "c", "e">>,
              N_joy, 70, N_comfort, 60, hope, 50),
          row(<<"t", "h", "r", "i", "l", "l", "e", "r">>,
              N_tension, 80, N_curiosity, 70, excitement, 60),
          row(<<"m", "y", "s", "t", "e", "r", "y">>,
              N_curiosity, 80, N_tension, 60, N_satisfaction, 50),
          row(<<"f", "a", "n", "t", "a", "s", "y">>,
              wonder, 80, N_curiosity, 60, inspiration, 50),
          row(<<"s", "c", "i", "e", "n", "c", "e", " ", "f", "i", "c", "t", "i", "o", "n">>,
              wonder, 70, N_curiosity, 70, N_tension, 40),
          row(<<"l", "i", "t", "e", "r", "a", "r", "y", " ", "f", "i", "c", "t", "i", "o", "n">>,
              reflection, 70, melancholy, 50, N_satisfaction, 60),
          row(<<"h", "i", "s", "t", "o", "r", "i", "c", "a", "l", " ", "f", "i", "c", "t", "i", "o", "n">>,
              reflection, 60, N_curiosity, 50, N_satisfaction, 50),
          row(<<"y", "o", "u", "n", "g", " ", "a", "d", "u", "l", "t">>,
              excitement, 60, hope, 50, N_curiosity, 50),
          row(<<"b", "i", "o", "g", "r", "a", "p", "h", "y">>,
              reflection, 70, inspiration, 60, N_satisfaction, 50),
          row(<<"s", "e", "l", "f", "-", "h", "e", "l", "p">>,
              hope, 80, inspiration, 70, N_comfort, 50),
          row(<<"c", "o", "m", "e", "d", "y">>,
              N_joy, 80, N_comfort, 60, N_satisfaction, 50),
          row(<<"d", "r", "a", "m", "a">>,
              N_tension, 70, reflection, 60, melancholy, 50),
          row(<<"a", "d", "v", "e", "n", "t", "u", "r", "e">>,
              excitement, 80, N_curiosity, 60, wonder, 50),
          row(<<"p", "o", "e", "t", "r", "y">>,
              reflection, 70, melancholy, 50, wonder, 60),
          row(<<"c", "l", "a", "s", "s", "i", "c">>,
              reflection, 70, N_satisfaction, 60, melancholy, 50) >>

\* a merge that adds the intensities of an emotion reached twice
merge_sum(acc, emotions) ==
    [e \in DOMAIN acc \cup DOMAIN emotions |->
        IF e \notin DOMAIN emotions THEN acc[e]
        ELSE IF e \in DOMAIN acc THEN acc[e] + emotions[e]
        ELSE emotions[e]]

\* for emotion, intensity in emotions.items(): the emotion is set, or
\* raised to max(genre_emotions[emotion], intensity) when already there
merge_max(acc, emotions) ==
    [e \in DOMAIN acc \cup DOMAIN emotions |->
        IF e \notin DOMAIN emotions THEN acc[e]
        ELSE IF e \in DOMAIN acc /\ acc[e] >= emotions[e] THEN acc[e]
        ELSE emotions[e]]

\* adjusted_intensity = intensity * 0.8
adjusted(emotions) == [e \in DOMAIN emotions |-> (emotions[e] * 8) \div 10]

\* the loop over GENRE_EMOTION_MAP.items() of a label that is no key, after
\* its first i rows
RECURSIVE partial_matches(_, _, _)
partial_matches(acc, genre_lower, i) ==
    IF i = 0 THEN acc
    ELSE LET before == partial_matches(acc, genre_lower, i - 1)
             known_genre == GENRE_EMOTION_MAP[i].genre
         IN  IF Contains(genre_lower, known_genre) \/ Contains(known_genre, genre_lower)
             THEN merge_max(before, adjusted(GENRE_EMOTION_MAP[i].emotions))
             ELSE before

\* genre_emotions after the first n labels of the loop over genres
RECURSIVE extract_over(_, _)
extract_over(labels, n) ==
    IF n = 0 THEN NoGenreEmotions
    ELSE LET acc == extract_over(labels, n - 1)
             genre_lower == Lower(labels[n])
             exact == { i \in 1..Len(GENRE_EMOTION_MAP) :
                          GENRE_EMOTION_MAP[i].genre = genre_lower }
         IN  IF exact # {}
             THEN merge_max(acc, GENRE_EMOTION_MAP[CHOOSE i \in exact : TRUE].emotions)
             ELSE partial_matches(acc, genre_lower, Len(GENRE_EMOTION_MAP))

extract_genre_emotions(labels) ==
    IF labels = <<>> THEN NoGenreEmotions ELSE extract_over(labels, Len(labels))

\* the genre labels of a book: keys of the table in either case, labels that
\* contain a key or are contained in keys, a label that matches nothing,
\* and the empty label
GenreLabels ==
    { <<"c", "o", "m", "e", "d", "y">>,
      <<"H", "o", "r", "r", "o", "r">>,
      <<"h", "o", "r", "r", "o", "r", " ", "f", "i", "c", "t", "i", "o", "n">>,
      <<"f", "i", "c", "t", "i", "o", "n">>,
      <<"y", "o", "u", "n", "g", " ", "a", "d", "u", "l", "t", " ", "t", "h", "r", "i", "l", "l", "e", "r">>,
      <<"r", "o", "m", "a", "n", "t", "i", "c", " ", "c", "o", "m", "e", "d", "y">>,
      <<"c", "o", "o", "k", "b", "o", "o", "k">>,
      <<>> }

MaxGenres == 2

\* create_emotional_profile: genre_emotions = self.extract_genre_emotions(genres)
ExtractGenreEmotions ==
    /\ ppc = "labelled"
    /\ genre_emotions' = extract_genre_emotions(genres)
    /\ ppc' = "extracted"
    /\ UNCHANGED <<description_analysis, reviews_analysis, genres, combined, vector,
                   vector_source>>
    /\ UNCHANGED <<endpointVars, moodVars, cacheVars, fusionVars, batchVars, storeVars>>

(***************************************************************************)
(* Claims about a mood request (checked under SpecMood).                   *)
(***************************************************************************)
Answered == mpc = "done"

\* the stored vectors whose book db.books still holds
Candidates == { i \in 1..Len(vectors_collection) : vectors_collection[i].book_id \in books_collection }

\* C3: whenever at least one book with a stored vector exists, a mood
\* request (during which nothing failed) returns a non-empty list, whatever
\* the similarities are.
C3_NonEmptyWhenCandidatesExist ==
    (Answered /\ failures = {} /\ Candidates # {}) => mood_result # <<>>

\* C4: the number of recommendations returned never exceeds the requested
\* limit (nothing is returned for a limit below 1) and never exceeds the
\* hard ceiling of 10, whatever the limit is.
C4_CountWithinLimitAndCeiling ==
    Answered =>
        /\ Len(mood_result) <= (IF requested_limit > 0 THEN requested_limit ELSE 0)
        /\ Len(mood_result) <= MaxReturned

\* find_similar_books has just returned, from its try block
Searched == mpc = "searched" /\ failures \cap {"vector_store", "malformed_vector"} = {}

QueryVector == generate_emotion_vector(mood_analysis)

\* C13: the search computes a similarity for every stored vector (it does
\* not raise), and the similarity between a zero vector and any vector,
\* zero query or zero stored vector, is 0.
C13_ZeroVectorSimilarityIsZero ==
    Searched =>
        LET zero_query == Eval(IsZeroVector(QueryVector))
        IN  /\ Len(similarities) = Len(vectors_collection)
            /\ \A i \in 1..Len(vectors_collection) :
                   (zero_query \/ IsZeroVector(vectors_collection[i].vector))
                       => similarities[i].dot = 0

\* a non-zero query met a zero stored vector next to a matching one
C13_Witness ==
    /\ Searched
    /\ ~IsZeroVector(QueryVector)
    /\ \E i, j \in 1..Len(vectors_collection) :
          /\ IsZeroVector(vectors_collection[i].vector)
          /\ similarities[i].dot = 0
          /\ similarities[j].dot > 0

\* the position in all_vectors of the document of a returned book
InputIndex(r) == CHOOSE i \in 1..Len(vectors_collection) : vectors_collection[i].book_id = r.book_id

SimilarityOfResult(r) == similarities[InputIndex(r)]

\* C14: the result of a similarity search is ordered by non-increasing
\* score, and candidates of equal score keep their input order.
C14_StableDescendingRanking ==
    Searched =>
        \A i, j \in 1..Len(vector_recommendations) :
            i < j =>
                LET a == vector_recommendations[i]
                    b == vector_recommendations[j]
                IN  /\ sim_geq(SimilarityOfResult(a), SimilarityOfResult(b))
                    /\ a.match_score >= b.match_score
                    /\ sim_geq(SimilarityOfResult(b), SimilarityOfResult(a))
                           => InputIndex(a) < InputIndex(b)

\* a result that holds two candidates of equal score, in their input order,
\* before one of lower score that came first in the input
C14_Witness ==
    /\ Searched
    /\ \E i, j, k \in 1..Len(vector_recommendations) :
          /\ i < j /\ j < k
          /\ vector_recommendations[i].match_score = vector_recommendations[j].match_score
          /\ vector_recommendations[j].match_score > vector_recommendations[k].match_score
          /\ InputIndex(vector_recommendations[k]) < InputIndex(vector_recommendations[i])

\* C18: the mood entry points never let an exception out and always return
\* a list: after a failure of the store during the vector search the search
\* returned the empty list, and after a failure of the text search or of
\* the construction of the analyzer the request returned the empty list
C18_EntryPointsNeverRaise ==
    /\ mpc # "raised"
    /\ DOMAIN mood_result = 1..Len(mood_result)
    /\ DOMAIN vector_recommendations = 1..Len(vector_recommendations)
    /\ (mpc \in {"searched", "done"} /\ "vector_store" \in failures)
           => vector_recommendations = <<>>
    /\ (Answered /\ failures \cap {"text_store", "credential"} # {}) => mood_result = <<>>

\* both searches of one request failed, and the request was answered
C18_Witness == Answered /\ failures = {"vector_store", "text_store"}

\* C19: a missing credential stops the process at startup: without the
\* credential no request is handled, and none is answered with a list
C19_MissingCredentialFailsFast ==
    ~credential => mpc = "idle"

\* the well-formed stored vectors that the query scores above 0 and whose
\* book db.books holds
ScorableCandidates ==
    { i \in Candidates :
        /\ well_formed(vectors_collection[i])
        /\ similarity_of(normalize(QueryVector), vectors_collection[i]).dot > 0 }

\* C29: a malformed stored vector (one of another length, or a document
\* without a vector) does not raise out of the search and does not keep the
\* well-formed candidates from being scored and returned.
C29_MalformedVectorIsPassedOver ==
    /\ "malformed_vector" \in failures => mpc # "raised"
    /\ (mpc = "searched" /\ "vector_store" \notin failures /\ limit >= 1
          /\ ScorableCandidates # {})
           => vector_recommendations # <<>>

(***************************************************************************)
(* Claims about the analysis cache (checked under SpecCache).              *)
(***************************************************************************)
Contacted(call) == call.answer # "none"

C15_EmptyInputGivesDefault ==
    \A c \in empty_calls :
        /\ c.output = Profile(<<Entry(N_neutral, 500)>>)
        /\ c.answer = "none"

C15_Witness ==
    /\ \E c \in empty_calls : c.prefix = "desc"
    /\ \E c \in empty_calls : c.prefix = "reviews"

\* C16: when the response of the service cannot be parsed, the analysis
\* returns the object {error: "JSON parsing failed", raw_response: <the
\* response text>}; the call returns, nothing is raised
C16_UnparseableGivesErrorObject ==
    \A k \in CacheKeys : \A i \in 1..Len(calls[k]) :
        calls[k][i].answer = "garbage" =>
            /\ calls[k][i].response \in GarbageTexts
            /\ calls[k][i].output =
                   [error |-> "JSON parsing failed", raw_response |-> calls[k][i].response]

C16_Witness ==
    \E k \in CacheKeys : \E i \in 1..Len(calls[k]) :
        /\ calls[k][i].answer = "garbage"
        /\ calls[k][i].response = "Here you go: {primary_emotions: oops"

\* C6: the persisted cache still contains every entry that was written, and
\* no request for a text whose entry was written asks the service again.
C6_NoEntryLost ==
    /\ written \subseteq DOMAIN cache_file
    /\ ~refetched

(***************************************************************************)
(* Claims about fusion and vectorization (checked under SpecProfile).      *)
(***************************************************************************)
Fused == ppc \in {"combined", "stored"}

Vectorized == ppc \in {"stored", "mood"}

\* what a source lists for a name: the intensities of its entries of that name
Listed(analysis, name) ==
    LET entries == primary_emotions_of(analysis)
    IN  { entries[i].intensity : i \in { j \in 1..Len(entries) : entries[j].emotion = name } }

\* a source's value for a name: the intensity of its last entry of that name
\* (0 when it has none)
LastListed(analysis, name) ==
    LET entries == primary_emotions_of(analysis)
        at == { j \in 1..Len(entries) : entries[j].emotion = name }
    IN  IF at = {} THEN 0 ELSE entries[CHOOSE j \in at : \A k \in at : k <= j].intensity

MaxListed(analysis, name) ==
    IF Listed(analysis, name) = {} THEN 0
    ELSE CHOOSE x \in Listed(analysis, name) : \A y \in Listed(analysis, name) : y <= x

GenreListed(name) == IF name \in DOMAIN genre_emotions THEN 10 * genre_emotions[name] ELSE 0

NamesInSources ==
    { e.emotion : e \in { primary_emotions_of(description_analysis)[i] :
                            i \in 1..Len(primary_emotions_of(description_analysis)) } }
    \cup { e.emotion : e \in { primary_emotions_of(reviews_analysis)[i] :
                                 i \in 1..Len(primary_emotions_of(reviews_analysis)) } }
    \cup DOMAIN genre_emotions

\* S and W of the weighted average over the sources whose value is > 0
SumS(d, r, g) ==
    (IF d > 0 THEN 4 * d ELSE 0) + (IF r > 0 THEN 5 * r ELSE 0) + (IF g > 0 THEN g ELSE 0)

SumW(d, r, g) ==
    (IF d > 0 THEN 4 ELSE 0) + (IF r > 0 THEN 5 ELSE 0) + (IF g > 0 THEN 1 ELSE 0)

Abs(x) == IF x < 0 THEN 0 - x ELSE x

\* x is S / W rounded to one decimal: a multiple of 0.1 at most 0.05 from S / W
IsRounded(x, S, W) == x % 10 = 0 /\ 2 * Abs(x * W - S) <= 10 * W

FusedAt(name) == { i \in 1..Len(combined) : combined[i].emotion = name }

DescriptionEightReviewsFour ==
    /\ Listed(description_analysis, N_joy) = {800}
    /\ Listed(reviews_analysis, N_joy) = {400}
    /\ N_joy \notin DOMAIN genre_emotions

\* C8 as stated: description 8 and reviews 4 for the same emotion, genre
\* silent: the fused intensity is exactly 8.
C8_FusedIsEightAsStated ==
    (Fused /\ DescriptionEightReviewsFour) =>
        \E i \in FusedAt(N_joy) : combined[i].intensity = 800

\* C8 amended: description 8 and reviews 4 for the same emotion, genre
\* silent: the fused intensity is (0.4 * 8 + 0.5 * 4) / 0.9 rounded to one
\* decimal, 5.8.
C8_FusedIsWeightedAverage ==
    (Fused /\ DescriptionEightReviewsFour) =>
        /\ FusedAt(N_joy) # {}
        /\ \A i \in FusedAt(N_joy) : combined[i].intensity = 580

C8_Witness == Fused /\ DescriptionEightReviewsFour /\ FusedAt(N_joy) # {}

\* the intensities of the vectorizer's input entries that fall on an axis
OnAxis(i) ==
    { vector_source[j].intensity :
        j \in { k \in 1..Len(vector_source) : Lower(vector_source[k].emotion) = standard_emotions[i] } }

\* C9: a consumer of a profile that lists an emotion more than once uses the
\* maximum of the duplicate intensities: fusion, for a name only the
\* description lists, outputs that maximum; the vector is the normalized
\* vector that has on each axis the maximum of the entries that fall on it.
C9_DuplicatesUseMaximum ==
    /\ Fused =>
          \A n \in NamesInSources :
              ( /\ MaxListed(description_analysis, n) > 0
                /\ Listed(reviews_analysis, n) = {}
                /\ n \notin DOMAIN genre_emotions )
              => \E i \in FusedAt(n) :
                     combined[i].intensity = MaxListed(description_analysis, n)
    /\ Vectorized =>
          vector = normalize([num |-> [i \in Axes |-> IF OnAxis(i) = {} THEN 0
                                                      ELSE SetMax(OnAxis(i))],
                              den2 |-> 1])

\* C10: every entry given to the vectorizer lands on the axis its name
\* resolves to, so an entry of positive intensity is never dropped.
C10_EveryEntryResolved ==
    Vectorized =>
        \A j \in 1..Len(vector_source) :
            vector_source[j].intensity > 0 =>
                \E i \in closest_axes(Lower(vector_source[j].emotion)) : vector.num[i] > 0

\* the value the vectorizer's input puts on an axis
HasError(analysis) == "error" \in DOMAIN analysis

\* what a caller that checks for the error key would pass on
Substituted(analysis) == IF HasError(analysis) THEN default_analysis ELSE analysis

\* C17: a caller never fuses or vectorizes an error object: the composite
\* profile is the fusion of the analyses with the default neutral profile in
\* place of an error object, and the mood query vector is built from the
\* default neutral profile when the analysis of the mood is an error object
C17_ErrorObjectReplacedByDefault ==
    /\ Fused =>
           combined \in sorted_arrangements(
               combined_entries(Substituted(description_analysis),
                                Substituted(reviews_analysis), genre_emotions))
    /\ ppc = "mood" => vector_source = primary_emotions_of(Substituted(description_analysis))

RawOnAxis(i) == emotion_dict_get(lowered_entries(vector_source), standard_emotions[i])

\* C11: generate_emotion_vector returns a vector over the canonical axes
\* that is the all-zero vector, returned as it is, when no axis gets a
\* non-zero value, and has Euclidean norm 1 otherwise.
C11_NormIsZeroOrOne ==
    Vectorized =>
        /\ DOMAIN vector.num = Axes
        /\ IF \A i \in Axes : RawOnAxis(i) = 0
           THEN vector = NoVector
           ELSE /\ vector.den2 > 0
                /\ SumSq(vector.num) = vector.den2

\* a vector with two non-zero axes was generated
C11_Witness ==
    /\ Vectorized
    /\ Cardinality({ i \in Axes : vector.num[i] > 0 }) >= 2
    /\ SumSq(vector.num) = vector.den2

\* C12: generate_emotion_vector accepts a mapping with primary_emotions, a
\* bare list of entries and a user-query mapping without raising, and each
\* time returns a vector with one component per canonical axis.
C12_AcceptsThreeShapes ==
    /\ ppc # "raised"
    /\ ppc \in {"stored", "mood", "shaped"} => DOMAIN vector.num = Axes

(***************************************************************************)
(* Claims about genre signals (checked under SpecGenre).                   *)
(***************************************************************************)
Extracted == ppc = "extracted"

TableKeys == { GENRE_EMOTION_MAP[i].genre : i \in 1..Len(GENRE_EMOTION_MAP) }

TableRow(key) ==
    GENRE_EMOTION_MAP[CHOOSE i \in 1..Len(GENRE_EMOTION_MAP) :
                          GENRE_EMOTION_MAP[i].genre = key].emotions

\* what one label contributes: <<emotion, intensity>> pairs
LabelSignals(label) ==
    LET l == Lower(label)
    IN  IF l \in TableKeys
        THEN { <<e, TableRow(l)[e]>> : e \in DOMAIN TableRow(l) }
        ELSE UNION { { <<e, (8 * TableRow(k)[e]) \div 10>> : e \in DOMAIN TableRow(k) } :
                       k \in { key \in TableKeys : Contains(l, key) \/ Contains(key, l) } }

ReferenceMapping(labels) ==
    LET pairs == UNION { LabelSignals(labels[i]) : i \in 1..Len(labels) }
    IN  [e \in { p[1] : p \in pairs } |-> SetMax({ p[2] : p \in { q \in pairs : q[1] = e } })]

RECURSIVE Reversed(_)
Reversed(labels) ==
    IF labels = <<>> THEN <<>> ELSE Append(Reversed(Tail(labels)), Head(labels))

\* C20: extract_genre_emotions(genres) is the reference mapping: each emotion
\* gets the maximum, over the labels, of the table intensity of a label that
\* is a key once lower-cased, and otherwise of 0.8 times the table intensity
\* of every key that contains the label or is contained in it; a label that
\* matches nothing adds nothing, and the labels in the opposite order give
\* the same mapping
C20_GenreEmotionsAreReferenceMapping ==
    Extracted =>
        /\ genre_emotions = ReferenceMapping(genres)
        /\ genre_emotions = extract_genre_emotions(Reversed(genres))
        /\ \A i \in 1..Len(genres) :
               LabelSignals(genres[i]) = {} =>
                   genre_emotions = extract_genre_emotions(
                       SubSeq(genres, 1, i - 1) \o SubSeq(genres, i + 1, Len(genres)))

\* an emotion was reached through a partial match and through an exact
\* match of two labels, with different intensities
C20_Witness ==
    /\ Extracted
    /\ Len(genres) = 2
    /\ Lower(genres[1]) \notin TableKeys
    /\ Lower(genres[2]) \in TableKeys
    /\ \E p \in LabelSignals(genres[1]), q \in LabelSignals(genres[2]) :
          /\ p[1] = q[1]
          /\ p[2] < q[2]
          /\ genre_emotions[p[1]] = q[2]

(***************************************************************************)
(* The text fields of the fused profile.                                   *)
(***************************************************************************)
\* An analysis is a dictionary: a function from the keys it has.
\* d.get(key, default)
Get(d, key, default) == IF key \in DOMAIN d THEN d[key] ELSE default

NoDict == [k \in {} |-> ""]

Stages == <<"beginning", "middle", "end">>

ArcEmotions == {"joy", "fear", "hope"}

\* the longest list of emotions a stage of an answered arc has
MaxArcLen == 2

ArcLists == SeqsUpTo(ArcEmotions, MaxArcLen)

Mirror(s) == [i \in 1..Len(s) |-> s[Len(s) + 1 - i]]

\* the arcs the service may answer: the three stages differ, a stage or the
\* whole arc may be missing
ArcFragments ==
    {NoDict, [emotional_arc |-> [beginning |-> <<"joy">>]]} \cup
    { [emotional_arc |-> [beginning |-> x, middle |-> Mirror(x), end |-> x \o Mirror(x)]] :
        x \in ArcLists }

\* the analyses the service may answer with the given texts
AnalysisAnswers(lasting, overall) ==
    { a @@ l @@ o :
        a \in ArcFragments,
        l \in {NoDict, [lasting_impact |-> ""], [lasting_impact |-> lasting]},
        o \in {NoDict, [overall_emotional_profile |-> ""],
                         [overall_emotional_profile |-> overall]} }

DescriptionAnswers == AnalysisAnswers("bittersweet", "dark and tense")

ReviewsAnswers == AnalysisAnswers("uplifting", "warm and hopeful")

\* the text fields of _get_default_analysis()
default_text_fields ==
    [emotional_arc |-> [beginning |-> <<"neutral">>, middle |-> <<"neutral">>,
                        end |-> <<"neutral">>],
     lasting_impact |-> "Unknown",
     overall_emotional_profile |-> "Neutral emotional profile"]

\* analyze_description(description): the default analysis for an empty text
description_text_fields(book, answers) ==
    IF book.description THEN answers.description ELSE default_text_fields

\* analyze_reviews(reviews): the default analysis for no reviews
reviews_text_fields(book, answers) ==
    IF book.reviews THEN answers.reviews ELSE default_text_fields

RECURSIVE append_unique(_, _)
\* for emotion in desc_arc: if emotion not in combined: combined.append(emotion)
append_unique(arc, desc_arc) ==
    IF desc_arc = <<>> THEN arc
    ELSE IF \E i \in 1..Len(arc) : arc[i] = Head(desc_arc)
         THEN append_unique(arc, Tail(desc_arc))
         ELSE append_unique(Append(arc, Head(desc_arc)), Tail(desc_arc))

\* a slip: every emotion of the description's arc is appended
combine_arc_appending_all(desc_arc, review_arc) == review_arc \o desc_arc

\* combined['emotional_arc'][stage]
combine_arc(desc_arc, review_arc) == append_unique(review_arc, desc_arc)

stage_arc(analysis, stage) == Get(Get(analysis, "emotional_arc", NoDict), stage, <<>>)

\* if reviews_analysis.get(key): that value, else description_analysis.get(key, '')
prefer_reviews(description, reviews, key) ==
    IF Get(reviews, key, "") # "" THEN reviews[key] ELSE Get(description, key, "")

\* the text fields _combine_emotional_signals returns
combine_text_fields(description, reviews) ==
    [emotional_arc |->
        [stage \in {Stages[i] : i \in 1..Len(Stages)} |->
            combine_arc(stage_arc(description, stage), stage_arc(reviews, stage))],
     lasting_impact |-> prefer_reviews(description, reviews, "lasting_impact"),
     overall_emotional_profile |->
        prefer_reviews(description, reviews, "overall_emotional_profile")]

FusionIdle ==
    /\ fusion_book = [description |-> FALSE, reviews |-> FALSE]
    /\ fusion_answers = <<>>
    /\ fused_profile = <<>>
    /\ fpc = "idle"

\* create_emotional_profile(book): the text fields of its result
CreateEmotionalProfile ==
    /\ fpc = "called"
    /\ fused_profile' = combine_text_fields(description_text_fields(fusion_book, fusion_answers),
                                            reviews_text_fields(fusion_book, fusion_answers))
    /\ fpc' = "returned"
    /\ UNCHANGED <<fusion_book, fusion_answers>>
    /\ UNCHANGED <<endpointVars, profileVars, moodVars, cacheVars, batchVars, storeVars>>

(***************************************************************************)
(* Claims about the text fields of the fused profile (checked under        *)
(* SpecFusion).                                                            *)
(***************************************************************************)
\* what a source of the book provides for a key: nothing when the book has
\* no such source
Provided(present, answer, key) == IF present THEN Get(answer, key, "") ELSE ""

FirstProvided(key) ==
    LET r == Provided(fusion_book.reviews, fusion_answers.reviews, key)
        d == Provided(fusion_book.description, fusion_answers.description, key)
    IN  IF r # "" THEN r ELSE d

\* C22: the fused lasting_impact and overall summary are the reviews
\* source's value when it provides one, else the description source's, else
\* the empty string; a book with a description and no reviews gets the
\* description analysis's values.
C22_SummariesPreferReviewsThenDescription ==
    fpc = "returned" =>
        /\ fused_profile.lasting_impact = FirstProvided("lasting_impact")
        /\ fused_profile.overall_emotional_profile = FirstProvided("overall_emotional_profile")

Positions(s, x) == {i \in 1..Len(s) : s[i] = x}

First(s, x) == CHOOSE i \in Positions(s, x) : \A j \in Positions(s, x) : i <= j

\* fused is the reviews' list followed by the description's emotions that
\* the reviews' list lacks, each once, in the order they first appear
ReviewsThenNewOfDescription(fused, desc_arc, review_arc) ==
    LET n == Len(review_arc)
        rest == SubSeq(fused, n + 1, Len(fused))
    IN  /\ Len(fused) >= n
        /\ SubSeq(fused, 1, n) = review_arc
        /\ {rest[i] : i \in 1..Len(rest)} =
              {desc_arc[i] : i \in 1..Len(desc_arc)} \ {review_arc[i] : i \in 1..n}
        /\ \A i, j \in 1..Len(rest) :
              i < j => rest[i] # rest[j] /\ First(desc_arc, rest[i]) < First(desc_arc, rest[j])

\* C23: for each stage the fused arc is the reviews source's arc in its
\* order followed by the description source's emotions not already present,
\* in their order.
C23_ArcIsReviewsThenNewDescriptionEmotions ==
    fpc = "returned" =>
        \A s \in 1..Len(Stages) :
            ReviewsThenNewOfDescription(
                fused_profile.emotional_arc[Stages[s]],
                stage_arc(description_text_fields(fusion_book, fusion_answers), Stages[s]),
                stage_arc(reviews_text_fields(fusion_book, fusion_answers), Stages[s]))

\* at some stage the description repeats an emotion of the reviews and adds
\* a new one
C23_Witness ==
    /\ fpc = "returned"
    /\ fusion_book.description /\ fusion_book.reviews
    /\ \E s \in 1..Len(Stages) :
          LET d == stage_arc(fusion_answers.description, Stages[s])
              r == stage_arc(fusion_answers.reviews, Stages[s])
          IN  /\ r # <<>>
              /\ \E i, j \in 1..Len(d) : Positions(r, d[i]) # {} /\ Positions(r, d[j]) = {}
              /\ Len(fused_profile.emotional_arc[Stages[s]]) = Len(r) + 1

(***************************************************************************)
(* The batch scripts.                                                      *)
(***************************************************************************)
Urls == {"u1", "u2"}

\* the longest batch that is enumerated
MaxBatch == 2

\* how many times one batch is handed to process_batch
MaxPasses == 2

\* what becomes of a URL that process_batch has not processed yet: no book
\* id in it, its book is in the database, the scrape returns nothing,
\* something raises after the scrape, or the book is stored
ProcessBatchKinds == {"no_id", "existing", "failed_scrape", "exception", "success"}

\* update_book returns True or, after an exception it caught, False
UpdateBooksKinds == {"updated", "failed"}

\* a book of update_book_profiles: updated, something raises while it is
\* fetched, analysed or written, or its document has no 'url'
UpdateBookProfilesKinds == {"updated", "exception", "no_url"}

KindsOf(name) ==
    CASE name = "process_batch" -> ProcessBatchKinds
      [] name = "update_books" -> UpdateBooksKinds
      [] name = "update_book_profiles" -> UpdateBookProfilesKinds

Batches(name) == SeqsUpTo([url : Urls, kind : KindsOf(name)], MaxBatch)

Turn(path, marked, contacted, stored, saved, slept) ==
    [path |-> path, marked |-> marked, contacted |-> contacted, stored |-> stored,
     saved |-> saved, slept |-> slept]

\* a loop that lacks the check of processed_urls
handle_url_without_skip(url, kind, processed) ==
    CASE kind = "no_id" -> Turn("no_id", TRUE, FALSE, FALSE, FALSE, FALSE)
      [] kind = "existing" -> Turn("existing", TRUE, FALSE, FALSE, FALSE, FALSE)
      [] kind = "failed_scrape" -> Turn("failed_scrape", TRUE, TRUE, FALSE, FALSE, FALSE)
      [] kind = "exception" -> Turn("exception", TRUE, TRUE, FALSE, FALSE, FALSE)
      [] kind = "success" -> Turn("success", TRUE, TRUE, TRUE, TRUE, TRUE)

\* one turn of the loop of process_batch: the path taken, whether the URL
\* is added to processed_urls, whether Goodreads was contacted, whether the
\* book was written, whether _save_progress ran and whether the turn ended
\* with time.sleep(self.rate_limit)
handle_url(url, kind, processed) ==
    IF url \in processed THEN Turn("skipped", FALSE, FALSE, FALSE, FALSE, FALSE)
    ELSE CASE kind = "no_id" -> Turn("no_id", TRUE, FALSE, FALSE, FALSE, FALSE)
           [] kind = "existing" -> Turn("existing", TRUE, FALSE, FALSE, FALSE, FALSE)
           [] kind = "failed_scrape" -> Turn("failed_scrape", TRUE, TRUE, FALSE, FALSE, FALSE)
           [] kind = "exception" -> Turn("exception", TRUE, TRUE, FALSE, FALSE, FALSE)
           [] kind = "success" -> Turn("success", TRUE, TRUE, TRUE, TRUE, TRUE)

Handled(url, path, was_processed, contacted, stored, delay_before, delay_after) ==
    [url |-> url, path |-> path, was_processed |-> was_processed, contacted |-> contacted,
     stored |-> stored, delay_before |-> delay_before, delay_after |-> delay_after]

BatchIdle ==
    /\ script = "none"
    /\ batch_items = <<>>
    /\ bpos = 1
    /\ bpc = "idle"
    /\ passes = 0
    /\ processed_urls = {}
    /\ progress_file = {}
    /\ handled = <<>>

\* process_batch: one turn of `for url in batch`
ProcessBatchUrl ==
    /\ script = "process_batch"
    /\ bpc = "running"
    /\ bpos <= Len(batch_items)
    /\ LET url == batch_items[bpos].url
           turn == handle_url(url, batch_items[bpos].kind, processed_urls)
           marked == IF turn.marked THEN processed_urls \cup {url} ELSE processed_urls
       IN  /\ processed_urls' = marked
           /\ progress_file' = IF turn.saved THEN marked ELSE progress_file
           /\ handled' = Append(handled,
                                Handled(url, turn.path, url \in processed_urls, turn.contacted,
                                        turn.stored, FALSE, turn.slept))
    /\ bpos' = bpos + 1
    /\ UNCHANGED <<script, batch_items, bpc, passes>>
    /\ UNCHANGED <<endpointVars, profileVars, moodVars, cacheVars, fusionVars, storeVars>>

\* the same batch is handed to process_batch once more
ProcessBatchAgain ==
    /\ script = "process_batch"
    /\ bpc = "returned"
    /\ passes < MaxPasses
    /\ passes' = passes + 1
    /\ bpos' = 1
    /\ bpc' = "running"
    /\ UNCHANGED <<script, batch_items, processed_urls, progress_file, handled>>
    /\ UNCHANGED <<endpointVars, profileVars, moodVars, cacheVars, fusionVars, storeVars>>

\* update_books: one turn of `for i, book in enumerate(books, 1)`:
\* _respect_rate_limit(), then update_book(book), which catches what it raises
UpdateBooksBook ==
    /\ script = "update_books"
    /\ bpc = "running"
    /\ bpos <= Len(batch_items)
    /\ handled' = Append(handled,
                         Handled(batch_items[bpos].url, batch_items[bpos].kind, FALSE, TRUE,
                                 batch_items[bpos].kind = "updated", TRUE, FALSE))
    /\ bpos' = bpos + 1
    /\ UNCHANGED <<script, batch_items, bpc, passes, processed_urls, progress_file>>
    /\ UNCHANGED <<endpointVars, profileVars, moodVars, cacheVars, fusionVars, storeVars>>

\* update_book_profiles: one turn of `for book in tqdm(batch)`: book['url']
\* is read before the try block of the turn, so a document without it
\* raises into the except clause around the whole run; what raises inside
\* the try block is logged; time.sleep(rate_limit) ends the turn
UpdateBookProfilesBook ==
    /\ script = "update_book_profiles"
    /\ bpc = "running"
    /\ bpos <= Len(batch_items)
    /\ IF batch_items[bpos].kind = "no_url"
       THEN /\ bpc' = "aborted"
            /\ UNCHANGED <<bpos, handled>>
       ELSE /\ handled' = Append(handled,
                                 Handled(batch_items[bpos].url, batch_items[bpos].kind, FALSE,
                                         TRUE, batch_items[bpos].kind = "updated", FALSE, TRUE))
            /\ bpos' = bpos + 1
            /\ UNCHANGED bpc
    /\ UNCHANGED <<script, batch_items, passes, processed_urls, progress_file>>
    /\ UNCHANGED <<endpointVars, profileVars, moodVars, cacheVars, fusionVars, storeVars>>

\* the loop has had every item of the batch
BatchReturns ==
    /\ bpc = "running"
    /\ bpos > Len(batch_items)
    /\ bpc' = "returned"
    /\ UNCHANGED <<script, batch_items, bpos, passes, processed_urls, progress_file, handled>>
    /\ UNCHANGED <<endpointVars, profileVars, moodVars, cacheVars, fusionVars, storeVars>>

(***************************************************************************)
(* Claims about the batch scripts (checked under SpecBatch).               *)
(***************************************************************************)
Ended == bpc \in {"returned", "aborted"}

\* C21: a failure on one book is logged and the loop goes on: when the run
\* has ended, every item of the batch has had its turn.
C21_EveryItemHasItsTurn ==
    Ended => Len(handled) = passes * Len(batch_items)

\* no item between the i-th and the j-th handled contacted a service
ConsecutiveContacts(i, j) ==
    /\ i < j
    /\ handled[i].contacted /\ handled[j].contacted
    /\ \A k \in (i + 1)..(j - 1) : ~handled[k].contacted

\* C26: between two consecutive items that contact an external service
\* there is a rate-limit delay, however the earlier one ended.
C26_DelayBetweenContacts ==
    \A i, j \in 1..Len(handled) :
        ConsecutiveContacts(i, j) =>
            \E k \in i..j : \/ (k < j /\ handled[k].delay_after)
                             \/ (k > i /\ handled[k].delay_before)

\* C27: when process_batch has returned every URL of the batch is in
\* processed_urls, and a URL that was in processed_urls when its turn came
\* was skipped: not scraped, not written.
C27_ProcessedOnceAndMarked ==
    script = "process_batch" =>
        /\ bpc = "returned" =>
               \A i \in 1..Len(batch_items) : batch_items[i].url \in processed_urls
        /\ \A i \in 1..Len(handled) :
               handled[i].was_processed =>
                   /\ handled[i].path = "skipped"
                   /\ ~handled[i].contacted
                   /\ ~handled[i].stored

\* a batch was processed twice: a URL stored in the first pass was skipped
\* in the second
C27_Witness ==
    /\ script = "process_batch"
    /\ bpc = "returned"
    /\ passes = 2
    /\ \E i, j \in 1..Len(handled) :
          /\ i < j
          /\ handled[i].url = handled[j].url
          /\ handled[i].path = "success"
          /\ handled[j].path = "skipped"

\* C30: after each URL process_batch has handled, on every path, the
\* progress file lists exactly the URLs of processed_urls.
C30_ProgressFileFollowsProcessedUrls ==
    (script = "process_batch" /\ handled # <<>>) => progress_file = processed_urls

(***************************************************************************)
(* The stored books and their vectors.                                     *)
(***************************************************************************)
\* the (title, author) pairs of the books that are processed
BookPairs ==
    {[title |-> "Dune", author |-> "Herbert"], [title |-> "Dune", author |-> "Anderson"]}

StoredProfiles == {P_joy, P_fear}

\* how many operations one run makes
MaxStoreOps == 3

\* a book as process_batch added it: book_data['emotional_profile'] and
\* book_data['embedding'] = generate_emotion_vector(emotional_profile)
scraped_book(pair, emotional_profile) ==
    [title |-> pair.title, author |-> pair.author, url |-> "goodreads",
     emotional_profile |-> emotional_profile,
     embedding |-> generate_emotion_vector(emotional_profile)]

\* book_data of process_book, with the profile create_emotional_profile gave
integrated_book(pair, emotional_profile) ==
    [title |-> pair.title, author |-> pair.author, emotional_profile |-> emotional_profile]

\* the _ids find({"title": ..., "author": ...}) matches
matching(books, book_data) ==
    {i \in 1..Len(books) :
        books[i].title = book_data.title /\ books[i].author = book_data.author}

\* a _store_book that never looks for the book
store_book_always_inserting(books, book_data, outcome) ==
    IF outcome = "ok"
    THEN [books |-> Append(books, book_data @@ [created_at |-> "now"]),
          id |-> Len(books) + 1, stored |-> TRUE]
    ELSE [books |-> books, id |-> 0, stored |-> FALSE]

\* _store_book(book_data): the collection afterwards, book_data["_id"]
\* afterwards (0 when it has none) and the value returned; find_one or the
\* write may raise, which the except clause turns into False
store_book(books, book_data, outcome) ==
    LET existing == matching(books, book_data)
    IN  IF outcome = "find_raises" THEN [books |-> books, id |-> 0, stored |-> FALSE]
        ELSE IF existing # {}
        THEN LET id == CHOOSE i \in existing : \A j \in existing : i <= j
             IN  IF outcome = "write_raises"
                 THEN [books |-> books, id |-> id, stored |-> FALSE]
                 ELSE [books |-> [books EXCEPT ![id] = book_data], id |-> id, stored |-> TRUE]
        ELSE IF outcome = "write_raises" THEN [books |-> books, id |-> 0, stored |-> FALSE]
        ELSE [books |-> Append(books, book_data @@ [created_at |-> "now"]),
              id |-> Len(books) + 1, stored |-> TRUE]

\* store_emotion_vector(book_id, emotional_profile): update_one(..., upsert=True);
\* when it raises the except clause returns False and nothing is written
store_emotion_vector(vectors, book_id, emotional_profile, store_up) ==
    IF ~store_up THEN vectors
    ELSE [i \in DOMAIN vectors \cup {book_id} |->
            IF i = book_id THEN generate_emotion_vector(emotional_profile) ELSE vectors[i]]

\* process_book_for_vectors(book): nothing for a book without an _id
process_book_for_vectors(vectors, book_id, book, store_up) ==
    IF book_id = 0 THEN vectors
    ELSE store_emotion_vector(vectors, book_id, book.emotional_profile, store_up)

\* what analyzer.analyze_book returns to update_book_profiles: a profile,
\* with or without an 'embedding' of it
EnhancedAnalyses ==
    { [emotional_profile |-> p] : p \in StoredProfiles } \cup
    { [emotional_profile |-> p, embedding |-> generate_emotion_vector(p)] :
        p \in StoredProfiles }

\* update_data of update_book_profiles, as far as profiles and vectors go
update_data(book, enhanced_analysis) ==
    [enhanced_emotional_profile |-> enhanced_analysis,
     emotional_profile |-> IF "emotional_profile" \in DOMAIN book
                           THEN book.emotional_profile
                           ELSE Get(enhanced_analysis, "emotional_profile", NoDict)]
    @@ (IF "embedding" \in DOMAIN enhanced_analysis
        THEN [embedding |-> enhanced_analysis.embedding]
        ELSE NoDict)

StoreIdle ==
    /\ stored_books = <<>>
    /\ emotion_vectors = <<>>
    /\ store_ops = <<>>

\* BookDataIntegrator.process_book(query): the book is found, its profile is
\* created, _store_book stores it and process_book_for_vectors vectorizes it
ProcessBook ==
    /\ Len(store_ops) < MaxStoreOps
    /\ \E pair \in BookPairs, emotional_profile \in StoredProfiles,
          outcome \in {"ok", "find_raises", "write_raises"}, vectors_up \in BOOLEAN :
          LET book_data == integrated_book(pair, emotional_profile)
              r == store_book(stored_books, book_data, outcome)
          IN  /\ stored_books' = r.books
              /\ emotion_vectors' =
                    process_book_for_vectors(emotion_vectors, r.id, book_data, vectors_up)
              /\ store_ops' = Append(store_ops,
                                     [op |-> "process_book", title |-> pair.title,
                                      author |-> pair.author, id |-> r.id,
                                      stored |-> r.stored])
    /\ UNCHANGED <<endpointVars, profileVars, moodVars, cacheVars, fusionVars, batchVars>>

\* process_vectors.py: process_book_for_vectors(book) for a book read from
\* db.books
ProcessBookForVectors ==
    /\ Len(store_ops) < MaxStoreOps
    /\ \E i \in 1..Len(stored_books), vectors_up \in BOOLEAN :
          /\ emotion_vectors' =
                process_book_for_vectors(emotion_vectors, i, stored_books[i], vectors_up)
          /\ store_ops' = Append(store_ops,
                                 [op |-> "process_book_for_vectors",
                                  title |-> stored_books[i].title,
                                  author |-> stored_books[i].author, id |-> i,
                                  stored |-> FALSE])
    /\ UNCHANGED stored_books
    /\ UNCHANGED <<endpointVars, profileVars, moodVars, cacheVars, fusionVars, batchVars>>

\* update_book_profiles: the turn of a book that db.books.find selected (it
\* has no enhanced_emotional_profile) and that has a 'url': db.update_book
\* sets the fields of update_data
UpdateBookProfile ==
    /\ Len(store_ops) < MaxStoreOps
    /\ \E i \in 1..Len(stored_books), enhanced_analysis \in EnhancedAnalyses :
          /\ "url" \in DOMAIN stored_books[i]
          /\ "enhanced_emotional_profile" \notin DOMAIN stored_books[i]
          /\ stored_books' =
                [stored_books EXCEPT
                    ![i] = update_data(stored_books[i], enhanced_analysis) @@ stored_books[i]]
          /\ store_ops' = Append(store_ops,
                                 [op |-> "update_book_profiles",
                                  title |-> stored_books[i].title,
                                  author |-> stored_books[i].author, id |-> i,
                                  stored |-> TRUE])
    /\ UNCHANGED emotion_vectors
    /\ UNCHANGED <<endpointVars, profileVars, moodVars, cacheVars, fusionVars, batchVars>>

(***************************************************************************)
(* Claims about the stored books and vectors (checked under SpecStore).    *)
(***************************************************************************)
\* C24: after any sequence of process_book, store_emotion_vector and
\* update_book_profiles, the stored vector of each book is the
\* vectorization of the profile stored for it.
C24_VectorFollowsProfile ==
    \A i \in 1..Len(stored_books) :
        LET expected == generate_emotion_vector(stored_books[i].emotional_profile)
        IN  /\ i \in DOMAIN emotion_vectors => emotion_vectors[i] = expected
            /\ "embedding" \in DOMAIN stored_books[i] => stored_books[i].embedding = expected

StoreCalls(pair) ==
    {k \in 1..Len(store_ops) :
        /\ store_ops[k].op = "process_book"
        /\ store_ops[k].stored
        /\ store_ops[k].title = pair.title
        /\ store_ops[k].author = pair.author}

\* C28: after any sequence of _store_book calls the collection holds at
\* most one record per (title, author), and a book stored again is stored
\* under the identifier it had.
C28_OneRecordPerTitleAndAuthor ==
    /\ \A i, j \in 1..Len(stored_books) :
          (stored_books[i].title = stored_books[j].title
             /\ stored_books[i].author = stored_books[j].author) => i = j
    /\ \A pair \in BookPairs :
          \A k, l \in StoreCalls(pair) :
              /\ store_ops[k].id = store_ops[l].id
              /\ matching(stored_books, pair) = {store_ops[k].id}

\* a book was stored twice, with another profile the second time, next to
\* a book of the same title by another author
C28_Witness ==
    /\ Len(stored_books) = 2
    /\ \E pair \in BookPairs :
          /\ Cardinality(StoreCalls(pair)) = 2
          /\ \E i \in matching(stored_books, pair) :
                /\ "created_at" \notin DOMAIN stored_books[i]
                /\ stored_books[i].emotional_profile = P_fear

(***************************************************************************)
(* The specifications.                                                     *)
(***************************************************************************)
Init == EndpointIdle /\ ProfileIdle /\ MoodIdle /\ CacheIdle /\ FusionIdle /\ BatchIdle /\ StoreIdle

Next == RecommendBooks \/ GetRecommendations

Spec == Init /\ [][Next]_vars

\* the three signals of one book, as create_emotional_profile collects them
InitProfile ==
    /\ EndpointIdle
    /\ MoodIdle
    /\ CacheIdle
    /\ FusionIdle
    /\ BatchIdle
    /\ StoreIdle
    /\ description_analysis \in DescChoices
    /\ reviews_analysis \in ReviewChoices
    /\ genres = <<>>
    /\ genre_emotions \in GenreChoices
    /\ combined = <<>>
    /\ vector = NoVector
    /\ vector_source = <<>>
    /\ ppc = "analyzed"

NextProfile ==
    CombineEmotionalSignals \/ StoreEmotionVector \/ MoodQueryVector \/ VectorizeShape

SpecProfile == InitProfile /\ [][NextProfile]_vars

\* the collections as process_book / store_emotion_vector left them
InitMood ==
    /\ EndpointIdle
    /\ ProfileIdle
    /\ CacheIdle
    /\ FusionIdle
    /\ BatchIdle
    /\ StoreIdle
    /\ \E kinds \in KindSeqs \cup MalformedSeqs :
          /\ vectors_collection = [i \in 1..Len(kinds) |-> stored_doc(i, kinds[i])]
          /\ books_collection = { i \in 1..Len(kinds) : kinds[i].has_book }
    /\ credential \in BOOLEAN
    /\ startup = "starting"
    /\ failures = {}
    /\ limit = DefaultLimit
    /\ requested_limit = DefaultLimit
    /\ mood_analysis = <<>>
    /\ similarities = <<>>
    /\ vector_recommendations = <<>>
    /\ mood_result = <<>>
    /\ mpc = "idle"

NextMood ==
    \/ StartApplication
    \/ StartStandalone
    \/ MoodRequestWithoutCredential
    \/ ApiRecommendations
    \/ VectorSearch
    \/ ReturnVectorRecommendations
    \/ TextSearchFallback

SpecMood == InitMood /\ [][NextMood]_vars

\* a process at startup: the integrator's analyzer has loaded the cache
\* file, which an earlier run may have left with an entry
InitCache ==
    /\ EndpointIdle
    /\ ProfileIdle
    /\ MoodIdle
    /\ FusionIdle
    /\ BatchIdle
    /\ StoreIdle
    /\ cache_file \in {EmptyCache} \cup
          { cache_put(EmptyCache, cache_key("desc", "t1"), a) : a \in {P_joy, P_fear} }
    /\ analyzer_cache = cache_file
    /\ calls = [k \in CacheKeys |-> <<>>]
    /\ empty_calls = {}
    /\ written = DOMAIN cache_file
    /\ refetched = FALSE

NextCache == IntegratorAnalyzeDescription \/ IntegratorAnalyzeReviews \/ MoodAnalyzeDescription

SpecCache == InitCache /\ [][NextCache]_vars

\* the genre labels of one book, before extract_genre_emotions
InitGenre ==
    /\ EndpointIdle
    /\ MoodIdle
    /\ CacheIdle
    /\ FusionIdle
    /\ BatchIdle
    /\ StoreIdle
    /\ description_analysis = <<>>
    /\ reviews_analysis = <<>>
    /\ genres \in SeqsUpTo(GenreLabels, MaxGenres)
    /\ genre_emotions = <<>>
    /\ combined = <<>>
    /\ vector = NoVector
    /\ vector_source = <<>>
    /\ ppc = "labelled"

NextGenre == ExtractGenreEmotions

SpecGenre == InitGenre /\ [][NextGenre]_vars

\* a book and what the service would answer for its description and reviews
InitFusion ==
    /\ EndpointIdle
    /\ ProfileIdle
    /\ MoodIdle
    /\ CacheIdle
    /\ BatchIdle
    /\ StoreIdle
    /\ fusion_book \in [description : BOOLEAN, reviews : BOOLEAN]
    /\ fusion_answers \in [description : IF fusion_book.description THEN DescriptionAnswers
                                          ELSE {NoDict},
                            reviews : IF fusion_book.reviews THEN ReviewsAnswers ELSE {NoDict}]
    /\ fused_profile = <<>>
    /\ fpc = "called"

NextFusion == CreateEmotionalProfile

SpecFusion == InitFusion /\ [][NextFusion]_vars

\* a script, its batch, and for process_batch the URLs load_progress read
\* from the progress file
InitBatch ==
    /\ EndpointIdle
    /\ ProfileIdle
    /\ MoodIdle
    /\ CacheIdle
    /\ FusionIdle
    /\ StoreIdle
    /\ script \in {"process_batch", "update_books", "update_book_profiles"}
    /\ batch_items \in Batches(script)
    /\ bpos = 1
    /\ bpc = "running"
    /\ passes = 1
    /\ processed_urls \in (IF script = "process_batch" THEN SUBSET Urls ELSE {{}})
    /\ progress_file = processed_urls
    /\ handled = <<>>

NextBatch ==
    \/ ProcessBatchUrl
    \/ ProcessBatchAgain
    \/ UpdateBooksBook
    \/ UpdateBookProfilesBook
    \/ BatchReturns

SpecBatch == InitBatch /\ [][NextBatch]_vars

\* db.books is empty or holds a book that process_batch added
InitStore ==
    /\ EndpointIdle
    /\ ProfileIdle
    /\ MoodIdle
    /\ CacheIdle
    /\ FusionIdle
    /\ BatchIdle
    /\ stored_books \in {<<>>} \cup { <<scraped_book(pair, P_joy)>> : pair \in BookPairs }
    /\ emotion_vectors = <<>>
    /\ store_ops = <<>>

NextStore == ProcessBook \/ ProcessBookForVectors \/ UpdateBookProfile

SpecStore == InitStore /\ [][NextStore]_vars

====
